---- MODULE Spec2Model ----
(***************************************************************************)
(* Model of the audio-visualizer hook (src/hooks/useAudioVisualizer.ts)    *)
(* and of the connection registry it uses (utils/audioContextManager).     *)
(*                                                                         *)
(* Several hook instances live on one page.  Each has the refs and the     *)
(* React state of the hook; the registry, the document's gesture           *)
(* listeners and the browser's animation-frame queue are shared.  Every    *)
(* action is one JavaScript task: a handler runs to completion together    *)
(* with the re-render and the effects it causes.                           *)
(***************************************************************************)
EXTENDS Integers, Sequences, FiniteSets, Bags, TLC

VARIABLES
    registry,     \* audioContextManager's map: source -> connection
    bound,        \* sources for which a media-element source node exists
    inst,         \* per hook instance: props, React state, refs, frame queue
    listeners,    \* document click/touchstart handlers, in registration order
    gestureSeen,  \* a click or touchstart has happened on the page
    hist,         \* per instance: history needed to state the properties
    lastCall,     \* the last call made through the hook's result
    renderer,     \* the FlowFieldRenderer: canvas size and particle pool
    server,       \* the secret keeper server: clock, limiter, tokens issued
    loader        \* the app's secret loader: its call of loadSecrets

vars == <<registry, bound, inst, listeners, gestureSeen, hist, lastCall, renderer,
          server, loader>>
hookVars == <<registry, bound, inst, listeners, gestureSeen, hist, lastCall>>

-----------------------------------------------------------------------------
(* Bounds and input sets *)

Instances == {"A", "B"}
Sources == {"s1", "s2"}

\* the absent audio element / a null ref
None == "none"
Null == {}

\* calls of startVisualization per instance
MaxStarts == 2
\* exceptions raised inside initialize, per instance
MaxFaults == 1

\* the fftSize option: its default (line 24), the value the second instance
\* passes, and the size of the connection's shared analyser (line 60)
DefaultFftSize == 128
SmallFftSize == 32
SharedFftSize == 2048
Options == [i \in Instances |-> IF i = "A" THEN DefaultFftSize ELSE SmallFftSize]

\* sources that may be wired into a foreign graph from the start
ForeignSources == {"s2"}

\* byte values an analyser writes into a data array
SampleBytes == {0, 255}

Elements == Sources \cup {None}

\* where the audio-graph layer may throw inside initialize: nowhere, in the
\* registry's acquire, creating or configuring the analyser, hooking the tap
\* (connect), repairing the chain
Faults == {"none", "acquire", "analyser", "connect", "chain"}

-----------------------------------------------------------------------------
(* Sequence helpers *)

Without(seq, x) == SelectSeq(seq, LAMBDA y : y # x)

Range(seq) == {seq[k] : k \in DOMAIN seq}

\* the empty map
EmptyMap == [x \in {} |-> x]

-----------------------------------------------------------------------------
(* The registry: utils/audioContextManager *)

\* nodes of a connection's playback chain
SourceNode == [kind |-> "source", k |-> 0]
FilterNode(k) == [kind |-> "filter", k |-> k]
Destination == [kind |-> "destination", k |-> 0]

\* source -> filter 1 -> ... -> filter n -> destination
ChainNodes(n) ==
    [k \in 1..(n + 2) |->
        IF k = 1 THEN SourceNode
        ELSE IF k = n + 2 THEN Destination
        ELSE FilterNode(k - 1)]

\* the links of a complete chain of n filters
RequiredLinks(n) == {<<ChainNodes(n)[k], ChainNodes(n)[k + 1]>> : k \in 1..(n + 1)}

\* a freshly constructed connection: source node wired to the destination,
\* empty filter chain, no shared analyser, one reference
NewConnection ==
    [refCount |-> 1, filters |-> 0, analyser |-> FALSE,
     taps |-> {},      \* links into analyser taps: which tap, from where
     tapOut |-> {},    \* links out of analyser taps: which tap, to where
     links |-> SetToBag(RequiredLinks(0))]   \* links of the playback chain

\* getOrCreateAudioConnection: the existing connection with one more
\* reference, or a new one; unavailable (null) when the source already has
\* a source node the registry does not hold (a source node can be created
\* only once per element)
getOrCreateAudioConnection(reg, bnd, s) ==
    IF s \in DOMAIN reg
    THEN [ok |-> TRUE,
          reg |-> [reg EXCEPT ![s].refCount = @ + 1],
          bnd |-> bnd]
    ELSE IF s \in bnd
    THEN [ok |-> FALSE, reg |-> reg, bnd |-> bnd]
    ELSE [ok |-> TRUE,
          reg |-> [x \in DOMAIN reg \cup {s} |->
                      IF x = s THEN NewConnection ELSE reg[x]],
          bnd |-> bnd \cup {s}]

\* releaseAudioConnection: one reference fewer; at zero every node is
\* disconnected and the entry is removed
releaseAudioConnection(reg, s) ==
    IF s \notin DOMAIN reg THEN reg
    ELSE IF reg[s].refCount - 1 <= 0
    THEN [x \in DOMAIN reg \ {s} |-> reg[x]]
    ELSE [reg EXCEPT ![s].refCount = @ - 1]

\* ensureConnectionChain that connects every pair again, linked or not
ensureConnectionChain_Reconnect(conn) ==
    [conn EXCEPT !.links = @ (+) SetToBag(RequiredLinks(conn.filters))]

\* ensureConnectionChain: links every pair of the chain that is not linked
\* yet; a pair that is linked already is left alone
ensureConnectionChain(conn) ==
    [conn EXCEPT !.links =
        @ (+) SetToBag({l \in RequiredLinks(conn.filters) : ~BagIn(l, @)})]

-----------------------------------------------------------------------------
(* The hook: one instance *)

FreshInstance ==
    [life |-> "fresh",            \* fresh, mounted, unmounted
     audioElement |-> None,       \* the prop, as of the latest render
     fftSize |-> DefaultFftSize,  \* the option
     isInitialized |-> FALSE,     \* React state, as of the latest render
     frequencyDataLen |-> 0,      \* React state frequencyData (its length)
     audioContextRef |-> None,
     analyserRef |-> Null,
     sourceRef |-> None,
     animationFrameRef |-> Null,
     starts |-> 0,                \* startVisualization calls that made a loop
     pending |-> {}]              \* loops with a frame request outstanding

FreshHistory ==
    [ungated |-> FALSE,     \* initialize's body ran before any gesture
     holds |-> None,        \* source acquired and not given back by teardown
     tornDown |-> FALSE,    \* the cleanup has run
     stopGen |-> 0,         \* loops started before the last stop returned
     cbAfterStop |-> FALSE, \* a stopped loop invoked the callback
     cycle |-> "idle",      \* start/stop calls made outside the callback:
                            \* idle, open (started, not stopped), broken
                            \* (started while open)
     faults |-> 0,          \* exceptions raised inside initialize so far
     escaped |-> FALSE,     \* an exception left initialize
     cbRan |-> FALSE,       \* the latest start or frame invoked the callback
     cbCalls |-> 0,         \* callback invocations of the latest start or frame
     cbLen |-> 0,           \* length of the data array given to the callback
     balance |-> 0]         \* registry acquires less registry releases made
                            \* by the instance, followed within -1..2

\* The state the operations work on
World ==
    [registry |-> registry, bound |-> bound, inst |-> inst,
     listeners |-> listeners, gestureSeen |-> gestureSeen, hist |-> hist]

Commit(w) ==
    /\ registry' = w.registry
    /\ bound' = w.bound
    /\ inst' = w.inst
    /\ listeners' = w.listeners
    /\ gestureSeen' = w.gestureSeen
    /\ hist' = w.hist

frequencyBinCount(fft) == fft \div 2

\* stopVisualization that forgets the handle without cancelling the request
stopVisualization_NoCancel(w, i) ==
    [w EXCEPT !.inst[i].animationFrameRef = Null,
              !.hist[i].stopGen = w.inst[i].starts]

\* stopVisualization (lines 155-160)
stopVisualization(w, i) ==
    LET me == w.inst[i]
        cancelled == IF me.animationFrameRef = Null
                     THEN me.pending
                     ELSE me.pending \ me.animationFrameRef
    IN [w EXCEPT !.inst[i].pending = cancelled,
                 !.inst[i].animationFrameRef = Null,
                 !.hist[i].stopGen = me.starts]

\* history: a stop made outside the frame callback closes the open cycle
closeCycle(w, i) ==
    [w EXCEPT !.hist[i].cycle = IF @ = "open" THEN "idle" ELSE @]

\* what a try block leaves behind: the state and the exception it raised
Outcome(w, error) == [world |-> w, error |-> error]

\* the tap hookup with the tap put in series, wired on to the destination
hookTap_InSeries(conn, customAnalyser, fail) ==
    IF fail = "connect" THEN conn
    ELSE [conn EXCEPT
            !.taps = @ \cup
                {[tap |-> customAnalyser,
                  from |-> IF conn.filters > 0 THEN "lastFilter" ELSE "source"]},
            !.tapOut = @ \cup {[tap |-> customAnalyser, to |-> Destination]}]

\* the tap hookup that always connects the tap off the source node
hookTap_OffSource(conn, customAnalyser, fail) ==
    IF fail = "connect" THEN conn
    ELSE [conn EXCEPT
            !.taps = @ \cup {[tap |-> customAnalyser, from |-> "source"]}]

\* the tap hookup (lines 76-88): the tap is connected off the last filter,
\* or off the source when there are no filters; a connect that throws is
\* caught and logged here
hookTap(conn, customAnalyser, fail) ==
    IF fail = "connect" THEN conn
    ELSE [conn EXCEPT
            !.taps = @ \cup
                {[tap |-> customAnalyser,
                  from |-> IF conn.filters > 0 THEN "lastFilter" ELSE "source"]}]

\* the unavailable branch that still marks the instance initialized
unavailable_MarksInitialized(w, i) ==
    Outcome([w EXCEPT !.inst[i].isInitialized = TRUE], "none")

\* the registry has no connection to give (lines 47-51): return
unavailable(w, i) == Outcome(w, "none")

\* lines 53-100, with the connection acquired
attach(w, i, s, fail) ==
    LET me == w.inst[i]
        \* the shared analyser is created when missing (lines 57-63)
        w0 == [w EXCEPT !.registry[s].analyser = TRUE]
    IN
    IF fail = "analyser" THEN Outcome(w0, "analyser")
    ELSE
      LET customAnalyser == [owner |-> i, fftSize |-> me.fftSize, current |-> TRUE]
          w1 == [w0 EXCEPT
                   !.registry[s] = hookTap(@, customAnalyser, fail),
                   !.inst[i].analyserRef = {customAnalyser},
                   !.inst[i].audioContextRef = s,
                   !.inst[i].sourceRef = s]
      IN
      IF fail = "chain" THEN Outcome(w1, "chain")
      ELSE Outcome(
             [w1 EXCEPT
                !.registry[s] = ensureConnectionChain(@),
                !.inst[i].frequencyDataLen = frequencyBinCount(SharedFftSize),
                !.inst[i].isInitialized = TRUE,
                \* the re-render with isInitialized true removes the
                \* gesture listeners (effect cleanup, lines 186-189)
                !.listeners = Without(@, i)],
             "none")

\* the try block of initialize (lines 45-100)
tryInitialize(w, i, fail) ==
    LET s == w.inst[i].audioElement IN
    IF fail = "acquire" THEN Outcome(w, "acquire")
    ELSE
      LET got == getOrCreateAudioConnection(w.registry, w.bound, s) IN
      IF ~got.ok THEN unavailable(w, i)
      ELSE attach([w EXCEPT !.registry = got.reg,
                            !.bound = got.bnd,
                            !.hist[i].holds = s,
                            !.hist[i].balance = IF @ < 2 THEN @ + 1 ELSE @],
                  i, s, fail)

\* history: the body of initialize runs
bodyRuns(w, i, fail) ==
    [w EXCEPT !.hist[i].ungated = @ \/ ~w.gestureSeen,
              !.hist[i].faults = IF fail # "none" THEN @ + 1 ELSE @]

\* initialize without its catch clause: the exception goes to the caller
initialize_NoCatch(w, i, fail) ==
    LET me == w.inst[i] IN
    IF me.audioElement = None \/ me.isInitialized \/ me.audioContextRef # None
    THEN w
    ELSE LET r == tryInitialize(bodyRuns(w, i, fail), i, fail)
         IN [r.world EXCEPT !.hist[i].escaped = @ \/ r.error # "none"]

\* initialize whose guard does not look at isInitialized
initialize_NoInitializedCheck(w, i, fail) ==
    LET me == w.inst[i] IN
    IF me.audioElement = None \/ me.audioContextRef # None
    THEN w
    ELSE tryInitialize(bodyRuns(w, i, fail), i, fail).world

\* initialize (lines 41-103), as the closure of the latest render; whatever
\* the try block raises is caught and logged (lines 101-103)
initialize(w, i, fail) ==
    LET me == w.inst[i] IN
    IF me.audioElement = None \/ me.isInitialized \/ me.audioContextRef # None
    THEN w
    ELSE tryInitialize(bodyRuns(w, i, fail), i, fail).world

\* history: the analyser nodes that instance i made and refers to no
\* longer are told apart from the one it makes next; they stay in the
\* graph as they are
abandonTaps(reg, i) ==
    LET old(t) == IF t.tap.owner = i THEN [t EXCEPT !.tap.current = FALSE] ELSE t
    IN [s \in DOMAIN reg |->
           [reg[s] EXCEPT !.taps = {old(t) : t \in @},
                          !.tapOut = {old(t) : t \in @}]]

\* the cleanup that also disconnects the source node it referenced
cleanup_DisconnectsSource(w, i, el, rerender) ==
    LET w1 == closeCycle(stopVisualization(w, i), i)
        s == w.inst[i].sourceRef
        w2 == IF s \in DOMAIN w1.registry
              THEN [w1 EXCEPT !.registry[s].links = EmptyBag]
              ELSE w1
        w3 == IF el # None
              THEN [w2 EXCEPT !.registry = releaseAudioConnection(@, el),
                              !.hist[i].balance = IF @ > -1 THEN @ - 1 ELSE @]
              ELSE w2
    IN [w3 EXCEPT
          !.registry = abandonTaps(@, i),
          !.inst[i].audioContextRef = None,
          !.inst[i].analyserRef = Null,
          !.inst[i].sourceRef = None,
          !.inst[i].isInitialized = IF rerender THEN FALSE ELSE @,
          !.hist[i].holds = None,
          !.hist[i].tornDown = TRUE]

\* the cleanup of the unmount effect (lines 195-207), with the audioElement
\* its effect captured; rerender is FALSE when the component is going away
\* and setIsInitialized has nothing left to update
cleanup(w, i, el, rerender) ==
    LET w1 == closeCycle(stopVisualization(w, i), i)
        w2 == IF el # None
              THEN [w1 EXCEPT !.registry = releaseAudioConnection(@, el),
                              !.hist[i].balance = IF @ > -1 THEN @ - 1 ELSE @]
              ELSE w1
    IN [w2 EXCEPT
          !.registry = abandonTaps(@, i),
          !.inst[i].audioContextRef = None,
          !.inst[i].analyserRef = Null,
          !.inst[i].sourceRef = None,
          !.inst[i].isInitialized = IF rerender THEN FALSE ELSE @,
          !.hist[i].holds = None,
          !.hist[i].tornDown = TRUE]

\* what a call returns: a byte array, or an exception
Returned(data) == [threw |-> FALSE, data |-> data]
Thrown == [threw |-> TRUE, data |-> <<>>]

\* getFrequencyData without the null check of line 115: reading
\* frequencyBinCount of null throws
getFrequencyData_NoGuard(analyserRef, level) ==
    IF analyserRef = Null THEN Thrown
    ELSE LET analyser == CHOOSE a \in analyserRef : TRUE
             bufferLength == frequencyBinCount(analyser.fftSize)
         IN Returned([k \in 1..bufferLength |-> level])

\* getFrequencyData that sizes the array with fftSize
getFrequencyData_FftSize(analyserRef, level) ==
    IF analyserRef = Null THEN Returned(<<>>)
    ELSE LET analyser == CHOOSE a \in analyserRef : TRUE
             bufferLength == analyser.fftSize
         IN Returned([k \in 1..bufferLength |-> level])

\* getFrequencyData (lines 114-122); the analyser fills the array, here with
\* one byte value in every bin
getFrequencyData(analyserRef, level) ==
    IF analyserRef = Null THEN Returned(<<>>)
    ELSE LET analyser == CHOOSE a \in analyserRef : TRUE
             bufferLength == frequencyBinCount(analyser.fftSize)
         IN Returned([k \in 1..bufferLength |-> level])

\* getTimeDomainData (lines 125-133)
getTimeDomainData(analyserRef, level) ==
    IF analyserRef = Null THEN Returned(<<>>)
    ELSE LET analyser == CHOOSE a \in analyserRef : TRUE
             bufferLength == frequencyBinCount(analyser.fftSize)
         IN Returned([k \in 1..bufferLength |-> level])

\* resumeContext (lines 163-171): a suspended context is resumed; a resume
\* that rejects is caught and logged, and the promise resolves
resumeContext(audioContextRef, state, rejects) ==
    Returned(<<>>)

\* callback(data) inside updateData (line 144); the callback is the
\* caller's code and may call stopVisualization itself
invokeCallback(w, i, loop, callsStop) ==
    LET w1 == [w EXCEPT !.hist[i].cbAfterStop = @ \/ loop <= w.hist[i].stopGen,
                        !.hist[i].cbRan = TRUE,
                        !.hist[i].cbCalls = @ + 1]
    IN IF callsStop THEN stopVisualization(w1, i) ELSE w1

\* history: the array that line 143 reads for the callback; its length
\* does not depend on the bytes in it
readForCallback(w, i) ==
    [w EXCEPT !.hist[i].cbLen = Len(getFrequencyData(w.inst[i].analyserRef, 0).data)]

\* updateData without the check of line 141
updateData_NoGuard(w, i, loop, callsStop) ==
    LET w1 == invokeCallback(readForCallback(w, i), i, loop, callsStop)
    IN [w1 EXCEPT !.inst[i].pending = @ \cup {loop},
                  !.inst[i].animationFrameRef = {loop}]

\* updateData (lines 140-147), the tick of one loop
updateData(w, i, loop, callsStop) ==
    IF w.inst[i].analyserRef = Null THEN w
    ELSE LET w1 == invokeCallback(readForCallback(w, i), i, loop, callsStop)
         IN [w1 EXCEPT !.inst[i].pending = @ \cup {loop},
                       !.inst[i].animationFrameRef = {loop}]

\* startVisualization with neither null check (lines 138 and 141)
startVisualization_NoGuard(w, i, callsStop) ==
    LET loop == w.inst[i].starts + 1
        w1 == [w EXCEPT
                 !.inst[i].starts = loop,
                 !.hist[i].cycle = IF @ = "idle" THEN "open" ELSE "broken"]
        w2 == invokeCallback(w1, i, loop, callsStop)
    IN [w2 EXCEPT !.inst[i].pending = @ \cup {loop},
                  !.inst[i].animationFrameRef = {loop}]

\* startVisualization (lines 136-152): a new loop, ticked once at once
startVisualization(w, i, callsStop) ==
    IF w.inst[i].analyserRef = Null THEN w
    ELSE LET loop == w.inst[i].starts + 1
             w1 == [w EXCEPT
                      !.inst[i].starts = loop,
                      !.hist[i].cycle = IF @ = "idle" THEN "open" ELSE "broken"]
         IN updateData(w1, i, loop, callsStop)

\* history: a start or a frame begins; no callback invoked yet
beginTick(w, i) ==
    [w EXCEPT !.hist[i].cbRan = FALSE, !.hist[i].cbCalls = 0, !.hist[i].cbLen = 0]

\* the record of a call made through what the hook returns
CallRecord(i, op, fail, result) ==
    [inst |-> i, op |-> op,
     hadTap |-> inst[i].analyserRef # Null,
     wasInitialized |-> inst[i].isInitialized,
     fault |-> fail,
     result |-> result]

-----------------------------------------------------------------------------
(* JavaScript numbers: a finite value, or NaN *)

\* a number is the set of its value; NaN has none, so arithmetic on NaN
\* gives NaN and every comparison with NaN is false
NaN == {}
Num(v) == {v}
Plus(a, b) == {u + v : u \in a, v \in b}
Less(a, b) == \E u \in a, v \in b : u < v

\* a fraction num/den, den > 0
Frac(num, den) == [num |-> num, den |-> den]

-----------------------------------------------------------------------------
(* The particle renderer: FlowFieldRenderer *)

\* Math.random() yields k/RandomDenominator for a k in RandomChoices
RandomDenominator == 600
RandomChoices == {0, 1, 300}

\* life and maxLife are kept in halves of a tick
LifeUnit == 2
MinLife == 200
LifeSpread == 300
TrailBase == 15
TrailSpread == 25
MaxParticles == 800
AreaPerParticle == 1000
MaxByte == 255
gridSize == 40
margin == 50
\* maxSpeed = 3 + audioIntensity * 4 (line 316)
SpeedBase == 3
SpeedSpread == 4

\* a spectrum of n bins, the first k of them at 255 and the rest at 0
Spectrum(n, k) == [i \in 1..n |-> IF i <= k THEN MaxByte ELSE 0]

\* what render is given in the runs that follow trails and lives: ten bins,
\* silent, partly loud, all loud
Spectra == {Spectrum(10, 0), Spectrum(10, 4), Spectrum(10, 10)}

\* canvas sizes, as <<width, height>>
Sizes == {<<20, 20>>, <<40, 40>>}

\* the Math.random() values of one createParticle: for maxLife, x, y, size
DrawsOf(lifes, places, sizes) ==
    [maxLife : lifes, x : places, y : places, size : sizes]

\* one choice for every particle of a pool of n, the same for all of them
PoolChoices(n, choices) == {[i \in 1..n |-> c] : c \in choices}

Min(a, b) == IF a <= b THEN a ELSE b

\* Math.ceil(a / b) for a >= 0, b > 0
Ceil(a, b) == (a + b - 1) \div b

RECURSIVE Sum(_)
\* dataArray.reduce((sum, val) => sum + val, 0)
Sum(seq) == IF seq = <<>> THEN 0 ELSE Head(seq) + Sum(Tail(seq))

\* no renderer constructed
NoRenderer ==
    [width |-> 0, height |-> 0, cols |-> 0, rows |-> 0,
     flowField |-> <<>>, particles |-> <<>>,
     lastData |-> <<>>, lastLength |-> 0, lastOp |-> "none",
     recycled |-> <<>>]

\* initializeFlowField (lines 137-146): rows x cols vectors of angle 0 and
\* magnitude 0. A vector is kept as "zero" (as initialised), "set" (computed
\* by updateFlowField) or "nan" (computed from a NaN)
initializeFlowField(rows, cols) ==
    [y \in 1..rows |-> [x \in 1..cols |-> "zero"]]

\* createParticle (lines 156-169) on a width x height canvas, for the
\* Math.random() values d; the size is kept in 600ths
createParticle(width, height, d) ==
    LET maxLife == MinLife * LifeUnit
                     + (d.maxLife * LifeSpread * LifeUnit) \div RandomDenominator
    IN [x |-> Num((d.x * width) \div RandomDenominator),
        y |-> Num((d.y * height) \div RandomDenominator),
        vx |-> Num(0),
        vy |-> Num(0),
        size |-> RandomDenominator + (d.size * 5) \div 2,
        life |-> maxLife,
        maxLife |-> maxLife,
        trail |-> <<>>]

\* the pool size of initializeParticles (line 149)
particleCount(width, height) ==
    Min(MaxParticles, (width * height) \div AreaPerParticle)

\* initializeParticles (lines 148-154): pushes particleCount particles
initializeParticles(particles, width, height, ds) ==
    particles \o [n \in 1..particleCount(width, height) |->
                     createParticle(width, height, ds[n])]

\* the constructor (lines 124-135)
construct(width, height, ds) ==
    [width |-> width, height |-> height,
     cols |-> Ceil(width, gridSize),
     rows |-> Ceil(height, gridSize),
     flowField |-> initializeFlowField(Ceil(height, gridSize), Ceil(width, gridSize)),
     particles |-> initializeParticles(<<>>, width, height, ds),
     lastData |-> <<>>, lastLength |-> 0, lastOp |-> "construct",
     recycled |-> <<>>]

\* hash (lines 204-207): the top byte, signed, of the low 32 bits of
\* (i & 255) * 2654435761; the product is taken in 16-bit halves of the
\* multiplier 0x9E3779B1 (0x9E37 = 40503, 0x79B1 = 31153)
hash(i) ==
    LET masked == i % 256
        top == ((masked * 40503 + (masked * 31153) \div 65536) % 65536) \div 256
    IN IF top >= 128 THEN top - 256 ELSE top

\* fade (lines 209-211) of t = a/2, in 16ths:
\* t * t * t * (t * (t * 6 - 15) + 10)
fade(a) == a * a * a * (a * (3 * a - 15) + 20)

\* lerp (lines 213-215) for t in 16ths; the result is 16 times as fine as
\* a and b: a + t * (b - a)
lerp(t, a, b) == 16 * a + t * (b - a)

\* grad (lines 217-222)
grad(h0, x, y, z) ==
    LET h == h0 % 16
        u == IF h < 8 THEN x ELSE y
        v == IF h < 4 THEN y ELSE IF h = 12 \/ h = 14 THEN x ELSE z
    IN (IF h % 2 = 0 THEN u ELSE -u) + (IF (h \div 2) % 2 = 0 THEN v ELSE -v)

\* noise that takes the canvas width into its x
noise_Scaled(r, x0, y0, z0) ==
    LET X == ((x0 \div 2) + r.width) % 256
        Y == (y0 \div 2) % 256
        x == x0 - 2 * (x0 \div 2)
        y == y0 - 2 * (y0 \div 2)
        z == z0 - 2 * (z0 \div 2)
        u == fade(x)
        v == fade(y)
        w == fade(z)
        A == hash(X) + Y
        B == hash(X + 1) + Y
    IN lerp(w,
         lerp(v,
           lerp(u, grad(hash(A), x, y, z),
                   grad(hash(B), x - 2, y, z)),
           lerp(u, grad(hash(A + 1), x, y - 2, z),
                   grad(hash(B + 1), x - 2, y - 2, z))),
         lerp(v,
           lerp(u, grad(hash(A + 1), x, y, z - 2),
                   grad(hash(B + 1), x - 2, y, z - 2)),
           lerp(u, grad(hash(A + 2), x, y - 2, z - 2),
                   grad(hash(B + 2), x - 2, y - 2, z - 2))))

\* noise (lines 172-202) called on renderer r, for coordinates given in
\* halves; the result is in 8192ths (halves, and 16ths for each of the
\* three lerps)
noise(r, x0, y0, z0) ==
    LET X == (x0 \div 2) % 256
        Y == (y0 \div 2) % 256
        x == x0 - 2 * (x0 \div 2)
        y == y0 - 2 * (y0 \div 2)
        z == z0 - 2 * (z0 \div 2)
        u == fade(x)
        v == fade(y)
        w == fade(z)
        A == hash(X) + Y
        B == hash(X + 1) + Y
    IN lerp(w,
         lerp(v,
           lerp(u, grad(hash(A), x, y, z),
                   grad(hash(B), x - 2, y, z)),
           lerp(u, grad(hash(A + 1), x, y - 2, z),
                   grad(hash(B + 1), x - 2, y - 2, z))),
         lerp(v,
           lerp(u, grad(hash(A + 1), x, y, z - 2),
                   grad(hash(B + 1), x - 2, y, z - 2)),
           lerp(u, grad(hash(A + 2), x, y - 2, z - 2),
                   grad(hash(B + 2), x - 2, y - 2, z - 2))))

RECURSIVE GCD(_, _)
GCD(a, b) == IF b = 0 THEN a ELSE GCD(b, a % b)

\* the fraction num/den in lowest terms, den > 0
Lowest(num, den) == Frac(num \div GCD(num, den), den \div GCD(num, den))

\* audioIntensity of render (lines 469-470): Math.min(1, sum / n / 255);
\* 0/0 is NaN and a positive sum over 0 is Infinity, which min takes to 1
audioIntensity(dataArray, bufferLength) ==
    IF bufferLength = 0
    THEN IF Sum(dataArray) = 0 THEN NaN ELSE {Frac(1, 1)}
    ELSE IF Sum(dataArray) >= MaxByte * bufferLength
    THEN {Frac(1, 1)}
    ELSE {Lowest(Sum(dataArray), MaxByte * bufferLength)}

\* dataArray[i] ?? 0, counting from 0
ByteAt(dataArray, i) == IF i + 1 \in DOMAIN dataArray THEN dataArray[i + 1] ELSE 0

RECURSIVE SumFrom(_, _, _)
\* the loop of lines 524-526
SumFrom(dataArray, i, endIndex) ==
    IF i >= endIndex THEN 0
    ELSE ByteAt(dataArray, i) + SumFrom(dataArray, i + 1, endIndex)

\* getFrequencyBandIntensity (lines 516-529), for ratios startRatio <=
\* endRatio given as fractions: Math.min(1, sum / count / 255); a band of
\* no bins has sum 0 and count 0, and 0/0 is NaN
getFrequencyBandIntensity(dataArray, bufferLength, startRatio, endRatio) ==
    LET startIndex == (bufferLength * startRatio.num) \div startRatio.den
        endIndex == (bufferLength * endRatio.num) \div endRatio.den
        sum == SumFrom(dataArray, startIndex, endIndex)
        count == endIndex - startIndex
    IN IF count = 0 THEN NaN
       ELSE IF sum >= count * MaxByte THEN {Frac(1, 1)}
       ELSE {Frac(sum, count * MaxByte)}

\* the three bands of render (lines 471-473)
bassIntensity(dataArray, bufferLength) ==
    getFrequencyBandIntensity(dataArray, bufferLength, Frac(0, 10), Frac(1, 10))
midIntensity(dataArray, bufferLength) ==
    getFrequencyBandIntensity(dataArray, bufferLength, Frac(2, 10), Frac(5, 10))
trebleIntensity(dataArray, bufferLength) ==
    getFrequencyBandIntensity(dataArray, bufferLength, Frac(6, 10), Frac(10, 10))

\* updateFlowField (lines 224-277): every vector is computed again; angle
\* and force come out NaN when one of the intensities is NaN
updateFlowField(flowField, a, bass, mid) ==
    [y \in DOMAIN flowField |->
        [x \in DOMAIN flowField[y] |->
            IF a = NaN \/ bass = NaN \/ mid = NaN THEN "nan" ELSE "set"]]

\* maxTrailLength (line 331): Math.floor(15 + audioIntensity * 25)
maxTrailLength(a) ==
    {(TrailBase * f.den + TrailSpread * f.num) \div f.den : f \in a}

\* the speed limit of lines 316-321 admits velocity v: its speed is at most
\* maxSpeed = 3 + 4 * audioIntensity; with a NaN limit nothing is clipped
withinSpeed(v, a) ==
    \A f \in a :
        (v[1] * v[1] + v[2] * v[2]) * f.den * f.den
            <= (SpeedBase * f.den + SpeedSpread * f.num)
                 * (SpeedBase * f.den + SpeedSpread * f.num)

\* the particle is over a vector of the grid (lines 281-284)
inGrid(particle, r) ==
    \E x \in particle.x, y \in particle.y :
        /\ x \div gridSize >= 0 /\ x \div gridSize < r.cols
        /\ y \div gridSize >= 0 /\ y \div gridSize < r.rows

\* the vector under the particle (lines 285-287)
flowAt(particle, r) ==
    LET x == CHOOSE x \in particle.x : TRUE
        y == CHOOSE y \in particle.y : TRUE
    IN r.flowField[(y \div gridSize) + 1][(x \div gridSize) + 1]

\* dist > 0 (line 304): the particle is somewhere, and not at the centre
offCentre(particle, r) ==
    \E x \in particle.x, y \in particle.y :
        2 * x # r.width \/ 2 * y # r.height

\* the velocity after lines 280-321 (flow force, attraction to the centre,
\* damping, speed limit): NaN once a NaN force was added, and otherwise the
\* velocity v that field and damping leave, in whole pixels per tick
steer(particle, r, a, treble, v) ==
    IF \/ particle.vx = NaN
       \/ inGrid(particle, r) /\ flowAt(particle, r) = "nan"
       \/ treble = NaN /\ offCentre(particle, r)
    THEN [particle EXCEPT !.vx = NaN, !.vy = NaN]
    ELSE [particle EXCEPT !.vx = Num(v[1]), !.vy = Num(v[2])]

\* the wrap around the edges (lines 343-348)
wrap(particle, width, height) ==
    LET x1 == IF Less(particle.x, Num(-margin)) THEN Num(width + margin) ELSE particle.x
        x2 == IF Less(Num(width + margin), x1) THEN Num(-margin) ELSE x1
        y1 == IF Less(particle.y, Num(-margin)) THEN Num(height + margin) ELSE particle.y
        y2 == IF Less(Num(height + margin), y1) THEN Num(-margin) ELSE y1
    IN [particle EXCEPT !.x = x2, !.y = y2]

\* the respawn that keeps the old maxLife
respawn_KeepsMaxLife(particle, newParticle) ==
    [particle EXCEPT !.x = newParticle.x,
                     !.y = newParticle.y,
                     !.vx = newParticle.vx,
                     !.vy = newParticle.vy,
                     !.life = newParticle.maxLife,
                     !.trail = <<>>]

\* the respawn that keeps the velocity
respawn_KeepsVelocity(particle, newParticle) ==
    [particle EXCEPT !.x = newParticle.x,
                     !.y = newParticle.y,
                     !.life = newParticle.maxLife,
                     !.maxLife = newParticle.maxLife,
                     !.trail = <<>>]

\* the respawn of a dead particle (lines 351-361); the size is not assigned
respawn(particle, newParticle) ==
    [particle EXCEPT !.x = newParticle.x,
                     !.y = newParticle.y,
                     !.vx = newParticle.vx,
                     !.vy = newParticle.vy,
                     !.life = newParticle.maxLife,
                     !.maxLife = newParticle.maxLife,
                     !.trail = <<>>]

\* this advance is the particle's last: its life reaches 0 or below
dies(particle) == particle.life - LifeUnit <= 0

\* updateParticle (lines 279-361); of a trail entry only alpha is kept
updateParticle(particle, r, a, treble, v, d) ==
    LET steered == steer(particle, r, a, treble, v)
        pushed == Append(steered.trail,
                         [alpha |-> <<steered.life, steered.maxLife>>])
        trail == IF Less(maxTrailLength(a), Num(Len(pushed)))
                 THEN Tail(pushed) ELSE pushed
        moved == [steered EXCEPT !.trail = trail,
                                 !.x = Plus(@, steered.vx),
                                 !.y = Plus(@, steered.vy),
                                 !.life = @ - LifeUnit]
        wrapped == wrap(moved, r.width, r.height)
    IN IF wrapped.life <= 0
       THEN respawn(wrapped, createParticle(r.width, r.height, d))
       ELSE wrapped

\* render that takes the dead particles out of the pool
render_DropsDead(r, dataArray, bufferLength, vs, ds) ==
    LET a == audioIntensity(dataArray, bufferLength)
        bass == bassIntensity(dataArray, bufferLength)
        mid == midIntensity(dataArray, bufferLength)
        treble == trebleIntensity(dataArray, bufferLength)
        r1 == [r EXCEPT !.flowField = updateFlowField(@, a, bass, mid)]
        alive == SelectSeq(r.particles, LAMBDA q : ~dies(q))
    IN [r1 EXCEPT
          !.particles = [n \in DOMAIN alive |->
                            updateParticle(alive[n], r1, a, treble, vs[n], ds[n])],
          !.lastData = dataArray,
          !.lastLength = bufferLength,
          !.lastOp = "render",
          !.recycled = [n \in DOMAIN alive |-> {}]]

\* render (lines 465-499): the intensities, the flow field, and every
\* particle advanced by one tick; recycled records the new particle that
\* createParticle made for each particle respawned in this frame
render(r, dataArray, bufferLength, vs, ds) ==
    LET a == audioIntensity(dataArray, bufferLength)
        bass == bassIntensity(dataArray, bufferLength)
        mid == midIntensity(dataArray, bufferLength)
        treble == trebleIntensity(dataArray, bufferLength)
        r1 == [r EXCEPT !.flowField = updateFlowField(@, a, bass, mid)]
    IN [r1 EXCEPT
          !.particles = [n \in DOMAIN r.particles |->
                            updateParticle(r.particles[n], r1, a, treble, vs[n], ds[n])],
          !.lastData = dataArray,
          !.lastLength = bufferLength,
          !.lastOp = "render",
          !.recycled = [n \in DOMAIN r.particles |->
                            IF dies(r.particles[n])
                            THEN {createParticle(r.width, r.height, ds[n])}
                            ELSE {}]]

\* resize that leaves the old pool in place
resize_KeepsPool(r, width, height, ds) ==
    [r EXCEPT !.width = width, !.height = height,
              !.cols = Ceil(width, gridSize),
              !.rows = Ceil(height, gridSize),
              !.flowField = initializeFlowField(Ceil(height, gridSize),
                                                Ceil(width, gridSize)),
              !.particles = initializeParticles(@, width, height, ds),
              !.lastOp = "resize",
              !.recycled = <<>>]

\* resize that leaves the old grid in place
resize_KeepsGrid(r, width, height, ds) ==
    [r EXCEPT !.width = width, !.height = height,
              !.cols = Ceil(width, gridSize),
              !.rows = Ceil(height, gridSize),
              !.particles = initializeParticles(<<>>, width, height, ds),
              !.lastOp = "resize",
              !.recycled = <<>>]

\* resize (lines 531-543): a new grid and a new pool for the new size
resize(r, width, height, ds) ==
    [r EXCEPT !.width = width, !.height = height,
              !.cols = Ceil(width, gridSize),
              !.rows = Ceil(height, gridSize),
              !.flowField = initializeFlowField(Ceil(height, gridSize),
                                                Ceil(width, gridSize)),
              !.particles = initializeParticles(<<>>, width, height, ds),
              !.lastOp = "resize",
              !.recycled = <<>>]

-----------------------------------------------------------------------------
(* The secret keeper server: secret-server/server.js *)

\* TOKEN_EXPIRY (line 37): the default, in seconds
TOKEN_EXPIRY == 3600

\* the rate limiter (lines 49-55): max requests in a window of windowMs,
\* here in seconds
RateMax == 10
RateWindow == 900

\* the status the limiter answers with
TooManyRequests == 429

\* JWT_SECRET (line 36), and a key that is not the server's
JWT_SECRET == "JWT_SECRET"
OtherKey == "not JWT_SECRET"

\* APP_CREDENTIALS (lines 41-46)
APP_SECRET == "APP_SECRET"
APP_CREDENTIALS ==
    [appId \in {"darkfloor-art"} |->
        [secret |-> APP_SECRET,
         allowedEnvironments |-> {"development", "production"}]]

\* a field that the request body does not have
Undefined == "undefined"

\* !value, for undefined and for strings
Falsy(value) == value \in {Undefined, ""}

\* a response: its status, the error it names, the token and the secrets it
\* carries (a set of none or one)
Response(status, error, token, secrets) ==
    [status |-> status, error |-> error, token |-> token, secrets |-> secrets]

\* jwt.sign(payload, key, { expiresIn }) (lines 116-124): exp is iat plus
\* expiresIn, and the signature binds the payload to the key
sign(payload, key, expiresIn) ==
    LET claims == [appId |-> payload.appId,
                   environment |-> payload.environment,
                   iat |-> payload.iat,
                   exp |-> payload.iat + expiresIn]
    IN [payload |-> claims, signature |-> <<claims, key>>]

\* jwt.verify that accepts any signature
verify_Unsigned(token, key, now) ==
    IF now >= token.payload.exp THEN "TokenExpiredError"
    ELSE "decoded"

\* jwt.verify that still accepts a token in the second it expires
verify_ExpiresLate(token, key, now) ==
    IF token.signature # <<token.payload, key>> THEN "JsonWebTokenError"
    ELSE IF now > token.payload.exp THEN "TokenExpiredError"
    ELSE "decoded"

\* jwt.verify(token, key) (line 163) at clock now: the signature is checked
\* first, then the expiry
verify(token, key, now) ==
    IF token.signature # <<token.payload, key>> THEN "JsonWebTokenError"
    ELSE IF now >= token.payload.exp THEN "TokenExpiredError"
    ELSE "decoded"

\* loadSecretsForEnvironment (lines 216-244): the secrets of an environment
loadSecretsForEnvironment(environment) == [environment |-> environment]

\* the handshake handler without the environment check
handshake_AnyEnvironment(body, now) ==
    LET environment == IF body.environment = Undefined THEN "production"
                       ELSE body.environment
    IN IF Falsy(body.appId) \/ Falsy(body.appSecret)
       THEN Response(400, "Missing required fields", {}, {})
       ELSE IF body.appId \notin DOMAIN APP_CREDENTIALS
       THEN Response(401, "Invalid credentials", {}, {})
       ELSE IF APP_CREDENTIALS[body.appId].secret # body.appSecret
       THEN Response(401, "Invalid credentials", {}, {})
       ELSE Response(200, "",
                     {sign([appId |-> body.appId, environment |-> environment,
                            iat |-> now], JWT_SECRET, TOKEN_EXPIRY)}, {})

\* the handler of POST /handshake (lines 77-140)
handshake(body, now) ==
    LET environment == IF body.environment = Undefined THEN "production"
                       ELSE body.environment
    IN IF Falsy(body.appId) \/ Falsy(body.appSecret)
       THEN Response(400, "Missing required fields", {}, {})
       ELSE IF body.appId \notin DOMAIN APP_CREDENTIALS
       THEN Response(401, "Invalid credentials", {}, {})
       ELSE IF APP_CREDENTIALS[body.appId].secret # body.appSecret
       THEN Response(401, "Invalid credentials", {}, {})
       ELSE IF environment \notin APP_CREDENTIALS[body.appId].allowedEnvironments
       THEN Response(403, "Environment not allowed", {}, {})
       ELSE Response(200, "",
                     {sign([appId |-> body.appId, environment |-> environment,
                            iat |-> now], JWT_SECRET, TOKEN_EXPIRY)}, {})

\* the handler of GET /secrets (lines 148-198); the Authorization header is
\* <<>> when absent, else <<scheme, token>>
secrets(authHeader, now) ==
    IF authHeader = <<>> \/ authHeader[1] # "Bearer"
    THEN Response(401, "Unauthorized", {}, {})
    ELSE LET token == authHeader[2]
             verified == verify(token, JWT_SECRET, now)
         IN IF verified = "TokenExpiredError"
            THEN Response(401, "Token expired", {}, {})
            ELSE IF verified # "decoded"
            THEN Response(401, "Invalid token", {}, {})
            ELSE Response(200, "", {},
                          {loadSecretsForEnvironment(token.payload.environment)})

\* the handler of GET /health (lines 204-209)
health == Response(200, "", {}, {})

\* the limiter (lines 49-55, 62) counts the request: a window starts with
\* the first request after the last window ended
limiter(s, now) ==
    IF now >= s.resetTime
    THEN [s EXCEPT !.hits = 1, !.resetTime = now + RateWindow]
    ELSE [s EXCEPT !.hits = Min(@ + 1, RateMax + 1)]

\* the server answers a request: the limiter first (line 62), then the
\* route's handler
answer(s, route, request, response) ==
    LET counted == limiter(s, s.now)
        sent == IF counted.hits > RateMax
                THEN Response(TooManyRequests, "Too many requests", {}, {})
                ELSE response
    IN [counted EXCEPT
          !.issued = @ \cup sent.token,
          !.last = [route |-> route, request |-> request, at |-> s.now,
                    response |-> sent]]

\* before the server listens
NotStarted ==
    [now |-> 0, hits |-> 0, resetTime |-> 0, issued |-> {},
     last |-> [route |-> "none", request |-> <<>>, at |-> 0,
               response |-> Response(0, "", {}, {})]]

-----------------------------------------------------------------------------
(* The secret loader of the Electron app: electron/secret-loader.cjs *)

\* APP_ID (line 17): the default
APP_ID == "darkfloor-art"

\* what happens to a request: its response ends with a status and a body,
\* the request fails, or it times out. The body is text: text that
\* JSON.parse throws on, the text of null, or the text of an object with
\* the fields success, token, secrets and message (token and secrets are
\* sets of none or one: none when the field is absent or falsy)
Ended(statusCode, data) == [kind |-> "end", statusCode |-> statusCode, data |-> data]
Failed == [kind |-> "error", statusCode |-> 0, data |-> <<>>]
TimedOut == [kind |-> "timeout", statusCode |-> 0, data |-> <<>>]

Text(json, success, token, loaded, message) ==
    [json |-> json, success |-> success, token |-> token,
     secrets |-> loaded, message |-> message]
Garbage == Text("throws", FALSE, {}, {}, "")
NullText == Text("null", FALSE, {}, {}, "")
ObjectText(success, token, loaded, message) ==
    Text("object", success, token, loaded, message)

\* what the server puts on the wire for a response: res.json of the bodies of
\* server.js lines 82-85, 93-96, 101-104, 109-112, 128-132, 152-155, 167-170,
\* 172-175 and 186-190, whose message is named here by the error it comes
\* with; the limiter sends its message as plain text (line 52)
wire(response) ==
    IF response.status = TooManyRequests
    THEN Ended(response.status, Garbage)
    ELSE IF response.status = 200
    THEN Ended(200, ObjectText(TRUE, response.token, response.secrets, ""))
    ELSE Ended(response.status, ObjectText(FALSE, {}, {}, response.error))

\* a settled promise
Resolved(value) == [state |-> "resolved", value |-> value, error |-> ""]
Rejected(error) == [state |-> "rejected", value |-> {}, error |-> error]

\* the body of the handshake request (lines 51-55)
postData(config) ==
    [appId |-> APP_ID,
     appSecret |-> config.APP_SECRET,
     environment |-> config.APP_ENVIRONMENT]

\* the headers of the secrets request (lines 131-133)
Authorization(token) == <<"Bearer", token>>

\* the end handler of a response whose status is not 200 (lines 74-90 and
\* 145-161): the message of the body, or the status when the body has none
\* to read
failedWith(what, event) ==
    IF event.data.json = "object"
    THEN Rejected(<<what,
                    IF event.data.message = "" THEN "Unknown error"
                    ELSE event.data.message>>)
    ELSE Rejected(<<what, "status", event.statusCode>>)

\* performHandshake that does not look at the status
performHandshake_AnyStatus(event) ==
    IF event.kind = "error" THEN Rejected(<<"Handshake request failed">>)
    ELSE IF event.kind = "timeout" THEN Rejected(<<"Handshake request timed out">>)
    ELSE IF event.data.json # "object"
    THEN Rejected(<<"Failed to parse handshake response">>)
    ELSE IF event.data.success /\ event.data.token # {}
    THEN Resolved(event.data.token)
    ELSE Rejected(<<"Handshake response missing token">>)

\* performHandshake (lines 46-117): how its promise settles on the event of
\* the request
performHandshake(event) ==
    IF event.kind = "error" THEN Rejected(<<"Handshake request failed">>)
    ELSE IF event.kind = "timeout" THEN Rejected(<<"Handshake request timed out">>)
    ELSE IF event.statusCode # 200 THEN failedWith("Handshake failed", event)
    ELSE IF event.data.json # "object"
    THEN Rejected(<<"Failed to parse handshake response">>)
    ELSE IF event.data.success /\ event.data.token # {}
    THEN Resolved(event.data.token)
    ELSE Rejected(<<"Handshake response missing token">>)

\* fetchSecrets (lines 124-189): how its promise settles on the event of the
\* request
fetchSecrets(event) ==
    IF event.kind = "error" THEN Rejected(<<"Secrets request failed">>)
    ELSE IF event.kind = "timeout" THEN Rejected(<<"Secrets request timed out">>)
    ELSE IF event.statusCode # 200 THEN failedWith("Failed to fetch secrets", event)
    ELSE IF event.data.json # "object"
    THEN Rejected(<<"Failed to parse secrets response">>)
    ELSE IF event.data.success /\ event.data.secrets # {}
    THEN Resolved(event.data.secrets)
    ELSE Rejected(<<"Secrets response missing secrets">>)

\* the module as loaded: its configuration (lines 15-40), no call made
NotLoading(config) ==
    [config |-> config, calls |-> 0, pc |-> "idle", sent |-> <<>>, seen |-> <<>>,
     promise |-> Rejected(<<>>)]

\* the default configuration (lines 16-20)
DefaultConfig == [APP_SECRET |-> "", APP_ENVIRONMENT |-> "development"]

\* loadSecrets is called (lines 196-204): performHandshake sends its request;
\* sent lists the requests of the call and seen what became of them
loadSecrets(l) ==
    [l EXCEPT !.calls = @ + 1,
              !.pc = "handshake",
              !.sent = <<[route |-> "handshake", request |-> postData(l.config)]>>,
              !.seen = <<>>,
              !.promise = Rejected(<<>>)]

\* loadSecrets resumes when the handshake has settled (lines 204-209, 216-219):
\* with the token it calls fetchSecrets, which sends its request; a rejection
\* is thrown on
afterHandshake(l, event) ==
    LET settled == performHandshake(event)
        seen == Append(l.seen, event)
    IN IF settled.state = "resolved"
       THEN LET token == CHOOSE t \in settled.value : TRUE
            IN [l EXCEPT !.pc = "secrets",
                         !.seen = seen,
                         !.sent = Append(@, [route |-> "secrets",
                                             request |-> Authorization(token)])]
       ELSE [l EXCEPT !.pc = "done", !.seen = seen, !.promise = settled]

\* loadSecrets resumes when fetchSecrets has settled (lines 209-219): it
\* returns the secrets or throws the rejection on
afterSecrets(l, event) ==
    [l EXCEPT !.pc = "done",
              !.seen = Append(@, event),
              !.promise = fetchSecrets(event)]

-----------------------------------------------------------------------------
(* Initial state: nothing mounted; some sources may already be wired into *)
(* a graph that is not the registry's                                      *)

Init ==
    /\ registry = EmptyMap
    /\ bound \in SUBSET ForeignSources
    /\ inst = [i \in Instances |-> FreshInstance]
    /\ listeners = <<>>
    /\ gestureSeen = FALSE
    /\ hist = [i \in Instances |-> FreshHistory]
    /\ lastCall = [inst |-> None, op |-> None, hadTap |-> FALSE,
                   wasInitialized |-> FALSE, fault |-> "none",
                   result |-> Returned(<<>>)]
    /\ renderer = NoRenderer
    /\ server = NotStarted
    /\ loader = NotLoading(DefaultConfig)

-----------------------------------------------------------------------------
(* Actions *)

\* first render and its effects (lines 174-191), with the fftSize option
\* the caller passes: the gesture listeners are registered when there is an
\* audio element
MountWith(i, el, fft) ==
    /\ inst[i].life = "fresh"
    /\ inst' = [inst EXCEPT ![i].life = "mounted",
                            ![i].audioElement = el,
                            ![i].fftSize = fft]
    /\ listeners' = IF el # None THEN Append(listeners, i) ELSE listeners
    /\ UNCHANGED <<registry, bound, gestureSeen, hist, lastCall, renderer, server, loader>>

Mount(i, el) == MountWith(i, el, Options[i])

\* the audioElement prop changes: both effects have it as a dependency, so
\* their cleanups run with the old element (lines 186-189, 195-207), the
\* component re-renders with isInitialized false and the gesture effect
\* registers its listeners again (lines 175-184)
SetSource(i, el) ==
    /\ inst[i].life = "mounted"
    /\ el # inst[i].audioElement
    /\ LET w1 == [World EXCEPT !.listeners = Without(@, i)]
           w2 == cleanup(w1, i, inst[i].audioElement, TRUE)
       IN Commit([w2 EXCEPT
                    !.inst[i].audioElement = el,
                    !.listeners = IF el # None THEN Append(@, i) ELSE @])
    /\ UNCHANGED <<lastCall, renderer, server, loader>>

\* unmount: the cleanups of both effects run; nothing renders afterwards
Unmount(i) ==
    /\ inst[i].life = "mounted"
    /\ LET w1 == [World EXCEPT !.listeners = Without(@, i)]
           w2 == cleanup(w1, i, inst[i].audioElement, FALSE)
       IN Commit([w2 EXCEPT !.inst[i].life = "unmounted"])
    /\ UNCHANGED <<lastCall, renderer, server, loader>>

\* handleInteraction (lines 177-181)
handleInteraction(w, i, fail) ==
    [initialize(w, i, fail) EXCEPT !.listeners = Without(@, i)]

RECURSIVE dispatch(_, _, _)
\* the document delivers one event to its handlers in registration order
dispatch(w, handlers, fails) ==
    IF handlers = <<>> THEN w
    ELSE dispatch(handleInteraction(w, Head(handlers), fails[Head(handlers)]),
                  Tail(handlers), fails)

\* an exception may be raised in i's initialize
MayFail(i, fail) == fail # "none" => hist[i].faults < MaxFaults

\* a click or touchstart anywhere on the page; fails says where each
\* handler's initialize meets an exception
Gesture(fails) ==
    /\ \A i \in Instances :
          /\ MayFail(i, fails[i])
          /\ fails[i] # "none" => i \in Range(listeners)
    /\ Commit(dispatch([World EXCEPT !.gestureSeen = TRUE], listeners, fails))
    /\ UNCHANGED <<lastCall, renderer, server, loader>>

\* a caller invokes the initialize the hook returned (line 232)
CallInitialize(i, fail) ==
    /\ inst[i].life # "fresh"
    /\ MayFail(i, fail)
    /\ Commit(initialize(World, i, fail))
    /\ lastCall' = CallRecord(i, "initialize", fail, Returned(<<>>))
    /\ UNCHANGED <<renderer, server, loader>>

\* the equalizer puts a filter chain on an existing connection and wires it
\* between the source and the destination
InstallFilters(s) ==
    /\ s \in DOMAIN registry
    /\ registry[s].filters = 0
    /\ registry' = [registry EXCEPT ![s].filters = 1,
                                    ![s].links = SetToBag(RequiredLinks(1))]
    /\ UNCHANGED <<bound, inst, listeners, gestureSeen, hist, lastCall, renderer, server, loader>>

\* a caller starts a loop (line 229)
StartLoop(i, callsStop) ==
    /\ inst[i].life # "fresh"
    /\ inst[i].starts < MaxStarts
    /\ Commit(startVisualization(beginTick(World, i), i, callsStop))
    /\ lastCall' = CallRecord(i, "start", "none", Returned(<<>>))
    /\ UNCHANGED <<renderer, server, loader>>

\* a caller stops the loop (line 230)
StopLoop(i) ==
    /\ inst[i].life # "fresh"
    /\ Commit(closeCycle(stopVisualization(World, i), i))
    /\ UNCHANGED <<lastCall, renderer, server, loader>>

\* the browser runs one outstanding frame request
Frame(i, loop, callsStop) ==
    /\ loop \in inst[i].pending
    /\ Commit(updateData([beginTick(World, i) EXCEPT !.inst[i].pending = @ \ {loop}],
                         i, loop, callsStop))
    /\ lastCall' = CallRecord(i, "frame", "none", Returned(<<>>))
    /\ UNCHANGED <<renderer, server, loader>>

\* a caller reads data (lines 225-226)
GetData(i, op, level) ==
    /\ inst[i].life # "fresh"
    /\ lastCall' =
          CallRecord(i, op, "none",
                     IF op = "frequency"
                     THEN getFrequencyData(inst[i].analyserRef, level)
                     ELSE getTimeDomainData(inst[i].analyserRef, level))
    /\ UNCHANGED <<registry, bound, inst, listeners, gestureSeen, hist, renderer, server, loader>>

\* a caller resumes the context (line 231); the browser decides the state
\* of the context and whether resume() rejects
ResumeContext(i, state, rejects) ==
    /\ inst[i].life # "fresh"
    /\ lastCall' =
          CallRecord(i, "resume",
                     IF inst[i].audioContextRef # None /\ state = "suspended" /\ rejects
                     THEN "rejected" ELSE "none",
                     resumeContext(inst[i].audioContextRef, state, rejects))
    /\ UNCHANGED <<registry, bound, inst, listeners, gestureSeen, hist, renderer, server, loader>>

FaultChoices == [Instances -> Faults]
NoFaults == [i \in Instances |-> "none"]

\* the lifecycle of the instances and the registry they share, with an
\* audio-graph layer that does not throw
Next ==
    \/ \E i \in Instances, el \in Elements : Mount(i, el)
    \/ \E i \in Instances, el \in Elements : SetSource(i, el)
    \/ \E i \in Instances : Unmount(i)
    \/ Gesture(NoFaults)
    \/ \E i \in Instances : CallInitialize(i, "none")
    \/ \E s \in Sources : InstallFilters(s)

Spec == Init /\ [][Next]_vars

\* one instance with everything a caller and the browser can do to it
LoopInstances == {"A"}

NextLoop ==
    \/ \E i \in LoopInstances, el \in Elements, fft \in {DefaultFftSize, SmallFftSize} :
          MountWith(i, el, fft)
    \/ \E i \in LoopInstances, el \in Elements : SetSource(i, el)
    \/ \E i \in LoopInstances : Unmount(i)
    \/ Gesture(NoFaults)
    \/ \E i \in LoopInstances : CallInitialize(i, "none")
    \/ \E i \in LoopInstances, callsStop \in BOOLEAN : StartLoop(i, callsStop)
    \/ \E i \in LoopInstances : StopLoop(i)
    \/ \E i \in LoopInstances, loop \in 1..MaxStarts, callsStop \in BOOLEAN :
          Frame(i, loop, callsStop)
    \/ \E i \in LoopInstances, op \in {"frequency", "time"}, level \in SampleBytes :
          GetData(i, op, level)

SpecLoop == Init /\ [][NextLoop]_vars

\* one instance over an audio-graph layer that may throw
NextFault ==
    \/ \E i \in LoopInstances, el \in Elements : Mount(i, el)
    \/ \E i \in LoopInstances, el \in Elements : SetSource(i, el)
    \/ \E i \in LoopInstances : Unmount(i)
    \/ \E fails \in FaultChoices : Gesture(fails)
    \/ \E i \in LoopInstances, fail \in Faults : CallInitialize(i, fail)
    \/ \E s \in Sources : InstallFilters(s)
    \/ \E i \in LoopInstances, state \in {"suspended", "running"}, rejects \in BOOLEAN :
          ResumeContext(i, state, rejects)

SpecFault == Init /\ [][NextFault]_vars

-----------------------------------------------------------------------------
(* The renderer alone: construction, frames and resizes *)

\* no hook instance is mounted
HookIdle ==
    /\ registry = EmptyMap
    /\ bound = {}
    /\ inst = [i \in Instances |-> FreshInstance]
    /\ listeners = <<>>
    /\ gestureSeen = FALSE
    /\ hist = [i \in Instances |-> FreshHistory]
    /\ lastCall = [inst |-> None, op |-> None, hadTap |-> FALSE,
                   wasInitialized |-> FALSE, fault |-> "none",
                   result |-> Returned(<<>>)]

\* a renderer has been constructed on a canvas of one of the sizes
Constructed(sizes, draws) ==
    \E size \in sizes :
        \E ds \in PoolChoices(particleCount(size[1], size[2]), draws) :
            renderer = construct(size[1], size[2], ds)

\* Math.random() is called in a frame only when a particle is respawned
DrawsInFrame(draws) ==
    IF \E n \in DOMAIN renderer.particles : dies(renderer.particles[n])
    THEN draws
    ELSE {CHOOSE d \in draws : TRUE}

\* the animation loop renders one frame from the spectrum it read; the
\* field leaves the particles one of the velocities
RenderFrame(dataArray, velocities, draws) ==
    /\ \E vs \in PoolChoices(Len(renderer.particles),
                             {v \in velocities :
                                 withinSpeed(v, audioIntensity(dataArray, Len(dataArray)))}) :
          \E ds \in PoolChoices(Len(renderer.particles), DrawsInFrame(draws)) :
             renderer' = render(renderer, dataArray, Len(dataArray), vs, ds)
    /\ UNCHANGED <<hookVars, server, loader>>

\* the window is resized
Resize(size, draws) ==
    /\ \E ds \in PoolChoices(particleCount(size[1], size[2]), draws) :
          renderer' = resize(renderer, size[1], size[2], ds)
    /\ UNCHANGED <<hookVars, server, loader>>

\* trails and lives: particles that stay where they are created, with
\* whole and fractional lives and two sizes
Still == {<<0, 0>>}
ParticleDraws == DrawsOf(RandomChoices, {300}, {0, 300})

InitParticles == HookIdle /\ Constructed(Sizes, ParticleDraws) /\ server = NotStarted /\ loader = NotLoading(DefaultConfig)

NextParticles ==
    \/ \E dataArray \in Spectra : RenderFrame(dataArray, Still, ParticleDraws)
    \/ \E size \in Sizes : Resize(size, ParticleDraws)

SpecParticles == InitParticles /\ [][NextParticles]_vars

\* motion: one particle on a 40 x 40 canvas that the field drives at full
\* speed to the right or upwards; a spectrum of ten loud bins, one of five
\* loud bins, and the empty array
Velocities == {<<7, 0>>, <<0, -7>>}
MotionSizes == {<<40, 40>>}
MotionSpectra == {Spectrum(10, 10), Spectrum(5, 5), Spectrum(0, 0)}
MotionDraws == DrawsOf({0, 1}, {300}, {0})

InitMotion == HookIdle /\ Constructed(MotionSizes, MotionDraws) /\ server = NotStarted /\ loader = NotLoading(DefaultConfig)

NextMotion ==
    \/ \E dataArray \in MotionSpectra : RenderFrame(dataArray, Velocities, MotionDraws)
    \/ \E size \in MotionSizes : Resize(size, MotionDraws)

SpecMotion == InitMotion /\ [][NextMotion]_vars

\* pool and grid: canvases of no, one and eight hundred particles, rendered
\* in silence
PoolSizes == {<<20, 20>>, <<50, 30>>, <<1000, 900>>}
PoolSpectra == {Spectrum(10, 0)}
PoolDraws == DrawsOf({0}, {300}, {0})

InitPool == HookIdle /\ Constructed(PoolSizes, PoolDraws) /\ server = NotStarted /\ loader = NotLoading(DefaultConfig)

NextPool ==
    \/ \E dataArray \in PoolSpectra : RenderFrame(dataArray, Still, PoolDraws)
    \/ \E size \in PoolSizes : Resize(size, PoolDraws)

SpecPool == InitPool /\ [][NextPool]_vars

\* bands: spectra of no, one, five, ten and a hundred bins whose first
\* bins are loud, rendered on a canvas too small for a particle
BandLengths == {0, 1, 5, 10, 100}
BandSizes == {<<20, 20>>}
BandSpectra == UNION {{Spectrum(n, k) : k \in 0..n} : n \in BandLengths}

InitBands == HookIdle /\ Constructed(BandSizes, PoolDraws) /\ server = NotStarted /\ loader = NotLoading(DefaultConfig)

NextBands ==
    \/ \E dataArray \in BandSpectra : RenderFrame(dataArray, Still, PoolDraws)
    \/ \E size \in BandSizes : Resize(size, PoolDraws)

SpecBands == InitBands /\ [][NextBands]_vars

-----------------------------------------------------------------------------
(* The server alone: one client address, a clock, and requests *)

\* tokens a run may issue
MaxTokens == 2

\* the seconds at which requests are made: the start, the last second of a
\* token issued at the start, the second it expires, and an hour later
Instants == {0, 3599, 3600, 7200}

\* the bodies of handshake requests
HandshakeBodies ==
    [appId : {Undefined, "darkfloor-art", "other-app"},
     appSecret : {Undefined, "", APP_SECRET, "wrong"},
     environment : {Undefined, "development", "staging"}]

\* a token of the server's whose expiry was pushed back, with the signature
\* it had
Tampered(token) == [token EXCEPT !.payload.exp = @ + TOKEN_EXPIRY]

\* the claims of a token signed with another key
Resigned(token) == [token EXCEPT !.signature = <<token.payload, OtherKey>>]

\* the claims of a token without a signature
Unsigned(token) == [token EXCEPT !.signature = <<>>]

\* a token made without the server
Outsider ==
    sign([appId |-> "darkfloor-art", environment |-> "production", iat |-> 0],
         OtherKey, TOKEN_EXPIRY + TOKEN_EXPIRY + TOKEN_EXPIRY)

\* the Authorization headers a client may send
Headers ==
    {<<>>}
    \cup {<<"Basic", token>> : token \in server.issued \cup {Outsider}}
    \cup {<<"Bearer", token>> :
             token \in server.issued \cup {Outsider}
                       \cup {Tampered(t) : t \in server.issued}
                       \cup {Resigned(t) : t \in server.issued}
                       \cup {Unsigned(t) : t \in server.issued}}

RendererIdle == renderer = NoRenderer

Handshake ==
    /\ \E body \in HandshakeBodies :
          /\ Cardinality(server.issued \cup handshake(body, server.now).token)
                <= MaxTokens
          /\ server' = answer(server, "handshake", body,
                              handshake(body, server.now))
    /\ UNCHANGED <<hookVars, renderer, loader>>

GetSecrets ==
    /\ \E authHeader \in Headers :
          server' = answer(server, "secrets", authHeader,
                           secrets(authHeader, server.now))
    /\ UNCHANGED <<hookVars, renderer, loader>>

GetHealth ==
    /\ server' = answer(server, "health", <<>>, health)
    /\ UNCHANGED <<hookVars, renderer, loader>>

\* time passes
Tick ==
    /\ \E t \in Instants :
          /\ t > server.now
          /\ server' = [server EXCEPT !.now = t]
    /\ UNCHANGED <<hookVars, renderer, loader>>

InitSecrets == HookIdle /\ RendererIdle /\ server = NotStarted /\ loader = NotLoading(DefaultConfig)

NextSecrets ==
    \/ Handshake
    \/ GetSecrets
    \/ GetHealth
    \/ Tick

SpecSecrets == InitSecrets /\ [][NextSecrets]_vars

-----------------------------------------------------------------------------
(* The loader and the server: the app calls loadSecrets, the server or *)
(* something in its place answers, requests fail or time out, time passes *)

\* calls of loadSecrets in a run
MaxLoads == 2

\* the configurations: APP_SECRET unset, right or wrong (line 18), and the
\* two values of APP_ENVIRONMENT (line 19)
Configs ==
    [APP_SECRET : {"", APP_SECRET, "wrong"},
     APP_ENVIRONMENT : {"development", "production"}]

\* responses that are not the server's: bodies that are no JSON, null,
\* objects that lack a field or success, and statuses other than 200 on
\* bodies that lack nothing
ForeignReplies ==
    {Ended(200, Garbage),
     Ended(200, NullText),
     Ended(200, ObjectText(TRUE, {}, {}, "")),
     Ended(200, ObjectText(FALSE, {Outsider},
                           {loadSecretsForEnvironment("production")}, "")),
     Ended(500, ObjectText(TRUE, {Outsider},
                           {loadSecretsForEnvironment("production")}, "")),
     Ended(502, Garbage),
     Ended(503, NullText)}

\* the app calls loadSecrets; a call is made when none is under way
CallLoadSecrets ==
    /\ loader.pc \in {"idle", "done"}
    /\ loader.calls < MaxLoads
    /\ loader' = loadSecrets(loader)
    /\ UNCHANGED <<hookVars, renderer, server>>

\* the server answers the handshake request and the response ends
HandshakeAnswered ==
    /\ loader.pc = "handshake"
    /\ LET body == loader.sent[1].request
           response == handshake(body, server.now)
           answered == answer(server, "handshake", body, response)
       IN /\ Cardinality(answered.issued) <= MaxTokens
          /\ server' = answered
          /\ loader' = afterHandshake(loader, wire(answered.last.response))
    /\ UNCHANGED <<hookVars, renderer>>

\* the handshake request fails (lines 105-107)
HandshakeError ==
    /\ loader.pc = "handshake"
    /\ loader' = afterHandshake(loader, Failed)
    /\ UNCHANGED <<hookVars, renderer, server>>

\* the handshake request times out (lines 109-112)
HandshakeTimeout ==
    /\ loader.pc = "handshake"
    /\ loader' = afterHandshake(loader, TimedOut)
    /\ UNCHANGED <<hookVars, renderer, server>>

\* something else answers the handshake request
HandshakeForeign ==
    /\ loader.pc = "handshake"
    /\ \E event \in ForeignReplies : loader' = afterHandshake(loader, event)
    /\ UNCHANGED <<hookVars, renderer, server>>

\* the server answers the secrets request and the response ends
SecretsAnswered ==
    /\ loader.pc = "secrets"
    /\ LET authHeader == loader.sent[2].request
           answered == answer(server, "secrets", authHeader,
                              secrets(authHeader, server.now))
       IN /\ server' = answered
          /\ loader' = afterSecrets(loader, wire(answered.last.response))
    /\ UNCHANGED <<hookVars, renderer>>

\* the secrets request fails (lines 178-180)
SecretsError ==
    /\ loader.pc = "secrets"
    /\ loader' = afterSecrets(loader, Failed)
    /\ UNCHANGED <<hookVars, renderer, server>>

\* the secrets request times out (lines 182-185)
SecretsTimeout ==
    /\ loader.pc = "secrets"
    /\ loader' = afterSecrets(loader, TimedOut)
    /\ UNCHANGED <<hookVars, renderer, server>>

\* something else answers the secrets request
SecretsForeign ==
    /\ loader.pc = "secrets"
    /\ \E event \in ForeignReplies : loader' = afterSecrets(loader, event)
    /\ UNCHANGED <<hookVars, renderer, server>>

InitLoader ==
    /\ HookIdle
    /\ RendererIdle
    /\ server = NotStarted
    /\ \E config \in Configs : loader = NotLoading(config)

NextLoader ==
    \/ CallLoadSecrets
    \/ HandshakeAnswered
    \/ HandshakeError
    \/ HandshakeTimeout
    \/ HandshakeForeign
    \/ SecretsAnswered
    \/ SecretsError
    \/ SecretsTimeout
    \/ SecretsForeign
    \/ GetHealth
    \/ Tick

SpecLoader == InitLoader /\ [][NextLoader]_vars

-----------------------------------------------------------------------------
(* Properties *)

\* the cleanup runs for instance i in this step
TeardownStep(i) == Unmount(i) \/ \E el \in Elements : SetSource(i, el)

\* the body of initialize (past the guard of line 42) runs for i in this
\* step and meets the given exception
InitializeRuns(i, fail) ==
    /\ inst[i].audioElement # None
    /\ ~inst[i].isInitialized
    /\ inst[i].audioContextRef = None
    /\ \/ CallInitialize(i, fail)
       \/ /\ i \in Range(listeners)
          /\ \E fails \in FaultChoices : fails[i] = fail /\ Gesture(fails)

\* C1: the registry never removes a source's connection while an instance
\* that acquired it has not yet torn down; only the last release removes it.
C1_NoTeardownWhileHeld ==
    \A i \in Instances :
        hist[i].holds # None => hist[i].holds \in DOMAIN registry

\* C2: the registry holds one connection per source, every initialized
\* instance references the registry's connection for its source, and the
\* taps of different instances are different nodes.
C2_OneSharedConnection ==
    /\ \A i \in Instances :
          inst[i].analyserRef # Null =>
              /\ inst[i].sourceRef \in DOMAIN registry
              /\ inst[i].audioContextRef = inst[i].sourceRef
    /\ \A i, j \in Instances :
          (i # j /\ inst[i].analyserRef # Null) =>
              inst[i].analyserRef # inst[j].analyserRef

\* C3: once stopVisualization has returned, no loop started before it
\* invokes the callback again.
C3_NoCallbackAfterStop ==
    \A i \in Instances : ~hist[i].cbAfterStop

\* C4: after any number of start/stop cycles (each start followed by a stop,
\* frames firing in between) no frame request of the instance is pending.
C4_NoPendingAfterCycles ==
    \A i \in Instances :
        hist[i].cycle = "idle" => inst[i].pending = {}

\* C4 witness: two complete cycles, the second stop made after the second
\* start, and nothing pending
C4_Witness ==
    /\ inst["A"].starts >= 2
    /\ hist["A"].stopGen = inst["A"].starts
    /\ hist["A"].cycle = "idle"
    /\ inst["A"].analyserRef # Null
    /\ inst["A"].pending = {}

\* C5: the body of initialize never runs before a click or touchstart has
\* happened, whichever way initialize is invoked.
C5_InitializeGated ==
    \A i \in Instances : ~hist[i].ungated

\* C6: teardown is idempotent: a teardown of an instance that is already
\* torn down (nothing acquired since) changes neither the registry nor the
\* instance's refs.
C6_TeardownIdempotent ==
    [][\A i \in Instances :
          (/\ hist[i].tornDown
           /\ hist[i].holds = None
           /\ inst[i].analyserRef = Null
           /\ inst[i].audioContextRef = None
           /\ TeardownStep(i))
          => /\ registry' = registry
             /\ inst'[i].analyserRef = Null
             /\ inst'[i].audioContextRef = None
             /\ inst'[i].sourceRef = None
             /\ inst'[i].pending = inst[i].pending]_vars

\* C7: TornDown is terminal: an instance whose component has unmounted never
\* holds a tap again, whatever is called on it afterwards.
C7_TornDownTerminal ==
    \A i \in Instances :
        inst[i].life = "unmounted" =>
            /\ inst[i].analyserRef = Null
            /\ inst[i].audioContextRef = None

\* C8: from any state, teardown leaves the instance with no pending frame
\* request, no tap, context or source reference, isInitialized false, and
\* the registry reference it held released.
C8_TeardownClears ==
    [][\A i \in Instances :
          TeardownStep(i) =>
              /\ inst'[i].pending = {}
              /\ inst'[i].animationFrameRef = Null
              /\ inst'[i].analyserRef = Null
              /\ inst'[i].audioContextRef = None
              /\ inst'[i].sourceRef = None
              /\ (inst'[i].life = "mounted" => ~inst'[i].isInitialized)
              /\ LET s == hist[i].holds IN
                 (s # None /\ s \in DOMAIN registry) =>
                     \/ s \notin DOMAIN registry'
                     \/ registry'[s].refCount = registry[s].refCount - 1]_vars

\* C9: a mounted instance whose initialize runs against a source on which
\* another mounted instance is initialized becomes initialized too, and
\* getFrequencyData then returns a non-empty array on both.
C9_DualTap ==
    [][\A i, j \in Instances :
          (/\ i # j
           /\ inst[i].life = "mounted"
           /\ inst[j].life = "mounted"
           /\ inst[j].isInitialized
           /\ inst[j].analyserRef # Null
           /\ inst[j].sourceRef = inst[i].audioElement
           /\ InitializeRuns(i, "none"))
          => /\ inst'[i].analyserRef # Null
             /\ inst'[i].isInitialized
             /\ \A k \in {i, j}, level \in SampleBytes :
                   LET r == getFrequencyData(inst'[k].analyserRef, level)
                   IN ~r.threw /\ Len(r.data) > 0]_vars

\* C10: getFrequencyData and getTimeDomainData return a zero-length array
\* and do not throw whenever the instance has no tap.
C10_EmptyWithoutTap ==
    (lastCall.op \in {"frequency", "time"} /\ ~lastCall.hadTap) =>
        (~lastCall.result.threw /\ Len(lastCall.result.data) = 0)

\* C10 witness: a getter called on a torn-down instance that has no tap
C10_Witness ==
    /\ lastCall.op = "frequency"
    /\ lastCall.inst = "A"
    /\ ~lastCall.hadTap
    /\ hist["A"].tornDown
    /\ inst["A"].analyserRef = Null
    /\ lastCall.result = Returned(<<>>)

\* C11: after a successful initialize with fftSize F, getFrequencyData and
\* getTimeDomainData return exactly F/2 entries, each a byte in 0..255.
C11_HalfFftSizeBytes ==
    (lastCall.op \in {"frequency", "time"} /\ lastCall.hadTap) =>
        /\ ~lastCall.result.threw
        /\ Len(lastCall.result.data) = inst[lastCall.inst].fftSize \div 2
        /\ \A k \in DOMAIN lastCall.result.data :
              lastCall.result.data[k] \in 0..255

\* C11 witness: an instance made with fftSize 32 returns 16 bytes of 255
C11_Witness ==
    /\ lastCall.op = "time"
    /\ lastCall.inst = "A"
    /\ lastCall.hadTap
    /\ inst["A"].fftSize = SmallFftSize
    /\ Len(lastCall.result.data) = 16
    /\ lastCall.result.data[16] = 255

\* the registry has no connection to give for i's audio element
Unavailable(i) ==
    /\ inst[i].audioElement \in bound
    /\ inst[i].audioElement \notin DOMAIN registry

\* C12: when the registry reports a source unavailable, initialize returns
\* without throwing and leaves the instance with no tap, isInitialized
\* false and no reference held in the registry.
C12_UnavailableLeavesUninitialized ==
    [][\A i \in Instances, fail \in Faults \ {"acquire"} :
          (Unavailable(i) /\ InitializeRuns(i, fail))
          => /\ ~hist'[i].escaped
             /\ inst'[i].analyserRef = Null
             /\ ~inst'[i].isInitialized
             /\ hist'[i].holds = None
             /\ registry' = registry]_vars

\* C12 witness: initialize was called on an instance mounted with a source
\* that is wired into a graph the registry does not hold
C12_Witness ==
    /\ lastCall.op = "initialize"
    /\ lastCall.inst = "A"
    /\ lastCall.fault = "none"
    /\ ~lastCall.wasInitialized
    /\ inst["A"].life = "mounted"
    /\ ~hist["A"].tornDown
    /\ Unavailable("A")
    /\ inst["A"].analyserRef = Null
    /\ ~inst["A"].isInitialized

\* C13: no failure of the audio-graph layer (acquiring the connection,
\* creating or configuring the analyser, hooking it up, repairing the chain,
\* resuming the context) propagates out of initialize or resumeContext.
C13_NoFailureEscapes ==
    /\ \A i \in Instances : ~hist[i].escaped
    /\ lastCall.op = "resume" => ~lastCall.result.threw

\* C13 witness: the chain repair threw inside initialize (references set,
\* not initialized), and afterwards a resume of the context rejected
C13_Witness ==
    /\ hist["A"].faults = 1
    /\ inst["A"].audioContextRef # None
    /\ ~inst["A"].isInitialized
    /\ lastCall.op = "resume"
    /\ lastCall.fault = "rejected"
    /\ ~lastCall.result.threw
    /\ ~hist["A"].escaped

\* C14: when hooking the tap up throws, the tap is treated as absent: the
\* instance ends with no tap and does not report initialized with an
\* unconnected tap.
C14_FailedHookupLeavesNoTap ==
    [][\A i \in Instances :
          (~Unavailable(i) /\ InitializeRuns(i, "connect"))
          => /\ inst'[i].analyserRef = Null
             /\ ~inst'[i].isInitialized]_vars

\* C15: no tap has an outgoing connection.
C15_TapsAreDeadEnds ==
    \A s \in DOMAIN registry : registry[s].tapOut = {}

\* C15 witness: one connection has a tap off its source and a tap off its
\* last filter
C15_Witness ==
    \E s \in DOMAIN registry :
        /\ registry[s].filters = 1
        /\ \E t \in registry[s].taps : t.from = "source"
        /\ \E t \in registry[s].taps : t.from = "lastFilter"

\* C16: whenever a connection exists, its source is linked in series
\* through every filter to the destination, each link once.
C16_ChainComplete ==
    \A s \in DOMAIN registry :
        registry[s].links = SetToBag(RequiredLinks(registry[s].filters))

\* C16 witness: a connection with a filter that one instance has torn down
\* and another has initialized on
C16_Witness ==
    \E s \in DOMAIN registry :
        /\ registry[s].filters = 1
        /\ hist["A"].tornDown
        /\ inst["A"].analyserRef = Null
        /\ inst["B"].isInitialized
        /\ inst["B"].sourceRef = s
        /\ registry[s].links = SetToBag(RequiredLinks(1))

\* C17: initialize on an instance that is already initialized, or that has
\* no source, changes nothing.
C17_InitializeNoOp ==
    [][\A i \in Instances, fail \in Faults :
          (CallInitialize(i, fail)
           /\ (inst[i].isInitialized \/ inst[i].audioElement = None))
          => UNCHANGED <<registry, bound, inst, listeners, gestureSeen, hist>>]_vars

\* C17 witness: initialize was called on an initialized instance
C17_Witness ==
    /\ lastCall.op = "initialize"
    /\ lastCall.inst = "A"
    /\ lastCall.wasInitialized
    /\ lastCall.hadTap
    /\ inst["A"].isInitialized

\* C18: startVisualization on an instance without a tap invokes the
\* callback zero times and schedules no frame.
C18_StartWithoutTap ==
    [][\A i \in Instances, callsStop \in BOOLEAN :
          (inst[i].analyserRef = Null /\ StartLoop(i, callsStop))
          => /\ ~hist'[i].cbRan
             /\ inst'[i].pending = inst[i].pending
             /\ inst'[i].animationFrameRef = inst[i].animationFrameRef]_vars

\* C18 witness: a loop was started on a mounted instance that has no tap
C18_Witness ==
    /\ lastCall.op = "start"
    /\ lastCall.inst = "A"
    /\ ~lastCall.hadTap
    /\ inst["A"].life = "mounted"
    /\ inst["A"].analyserRef = Null
    /\ inst["A"].pending = {}
    /\ ~hist["A"].cbRan

\* the particles of the pool
Pool == {renderer.particles[n] : n \in DOMAIN renderer.particles}

\* C19: after every advance, whatever the audioIntensity of earlier ticks,
\* every particle's trail is at most floor(15 + 25 * audioIntensity) long
\* for the audioIntensity of the current tick.
C19_TrailWithinCap ==
    renderer.lastOp = "render" =>
        \A particle \in Pool :
            Less(Num(Len(particle.trail) - 1),
                 maxTrailLength(audioIntensity(renderer.lastData, Len(renderer.lastData))))

\* C20: for every particle, after construction, after every advance and
\* after every resize: 0 <= life <= maxLife.
C20_LifeWithinBounds ==
    renderer.lastOp \in {"construct", "render", "resize"} =>
        \A particle \in Pool :
            0 <= particle.life /\ particle.life <= particle.maxLife

\* C20 witness: the advance that recycled a particle: it has just been
\* given a longer life than the shortest one and an empty trail
C20_Witness ==
    /\ renderer.lastOp = "render"
    /\ \E particle \in Pool :
          /\ particle.trail = <<>>
          /\ particle.life = particle.maxLife
          /\ particle.maxLife > MinLife * LifeUnit

\* the number a lies in lo..hi; no NaN does
Within(a, lo, hi) == \E v \in a : lo <= v /\ v <= hi

\* the particles respawned in the latest frame, with the particle that
\* createParticle made for each
Recycled ==
    {n \in DOMAIN renderer.particles :
        n \in DOMAIN renderer.recycled /\ renderer.recycled[n] # {}}

\* C21: after construction, after every advance and after every resize,
\* every particle has -50 <= x <= width + 50 and -50 <= y <= height + 50.
C21_WrapInvariant ==
    renderer.lastOp \in {"construct", "render", "resize"} =>
        \A particle \in Pool :
            /\ Within(particle.x, -50, renderer.width + 50)
            /\ Within(particle.y, -50, renderer.height + 50)

\* C22: on the advance in which a particle's life reaches 0 or below, the
\* particle ends with life equal to its new maxLife, vx = vy = 0, an empty
\* trail and a position inside the canvas.
C22_RecycledParticle ==
    renderer.lastOp = "render" =>
        \A n \in Recycled :
            LET particle == renderer.particles[n] IN
            /\ particle.life = particle.maxLife
            /\ \A new \in renderer.recycled[n] : particle.maxLife = new.maxLife
            /\ particle.vx = Num(0)
            /\ particle.vy = Num(0)
            /\ particle.trail = <<>>
            /\ Within(particle.x, 0, renderer.width)
            /\ Within(particle.y, 0, renderer.height)

\* C22 witness: a particle whose life of 200.5 ticks ran out while it was
\* moving, respawned in the frame just rendered
C22_Witness ==
    /\ renderer.lastOp = "render"
    /\ 1 \in Recycled
    /\ renderer.particles[1].life = renderer.particles[1].maxLife
    /\ renderer.particles[1].vx = Num(0)
    /\ renderer.particles[1].maxLife = 401
    /\ renderer.lastData = Spectrum(10, 10)

\* C23: a recycled particle has every attribute re-initialised as for a
\* newly created particle: it equals the particle createParticle made.
C23_RecycledIsFresh ==
    renderer.lastOp = "render" =>
        \A n \in Recycled :
            \A new \in renderer.recycled[n] : renderer.particles[n] = new

\* C24: after construction and after every resize, cols = ceil(width/40),
\* rows = ceil(height/40), the grid holds rows x cols vectors and the pool
\* holds min(800, floor(width * height / 1000)) particles.
C24_ResizeContract ==
    renderer.lastOp \in {"construct", "resize"} =>
        /\ renderer.cols * 40 >= renderer.width
        /\ (renderer.cols - 1) * 40 < renderer.width
        /\ renderer.rows * 40 >= renderer.height
        /\ (renderer.rows - 1) * 40 < renderer.height
        /\ Len(renderer.flowField) = renderer.rows
        /\ \A y \in DOMAIN renderer.flowField :
              Len(renderer.flowField[y]) = renderer.cols
        /\ Len(renderer.particles) =
              IF (renderer.width * renderer.height) \div 1000 > 800
              THEN 800
              ELSE (renderer.width * renderer.height) \div 1000

\* C24 witness: a resize to 1000 x 900 after frames on another size: a grid
\* of 23 rows of 25 vectors and the full pool of 800
C24_Witness ==
    /\ renderer.lastOp = "resize"
    /\ renderer.width = 1000
    /\ renderer.height = 900
    /\ renderer.cols = 25
    /\ renderer.rows = 23
    /\ Len(renderer.particles) = 800
    /\ renderer.lastData # <<>>

\* C25: after any sequence of frames and resizes the pool holds
\* min(800, floor(width * height / 1000)) particles for the current size.
C25_PoolSizeFixed ==
    renderer.lastOp # "none" =>
        Len(renderer.particles) =
            IF (renderer.width * renderer.height) \div 1000 > 800
            THEN 800
            ELSE (renderer.width * renderer.height) \div 1000

\* C25 witness: the frame in which all 800 particles were recycled
C25_Witness ==
    /\ renderer.lastOp = "render"
    /\ Len(renderer.particles) = 800
    /\ Recycled = 1..800

\* the ratio ranges of the three bands, in tenths
Bands == {<<0, 1>>, <<2, 5>>, <<6, 10>>}

\* C26: for every bufferLength and byte array, each band's intensity is the
\* number min(1, mean / 255), where the mean is taken over the bytes at
\* indices floor(n * s) up to floor(n * e) - 1; with a hundred bins the bass
\* band is the first ten bytes and is 1 when they are all 255
C26_BandIntensity ==
    renderer.lastOp = "render" =>
        /\ \A band \in Bands :
              LET n == renderer.lastLength
                  startIndex == (n * band[1]) \div 10
                  endIndex == (n * band[2]) \div 10
                  count == endIndex - startIndex
                  total == SumFrom(renderer.lastData, startIndex, endIndex)
                  got == getFrequencyBandIntensity(renderer.lastData, n,
                             Frac(band[1], 10), Frac(band[2], 10))
              IN \E f \in got :
                    IF total >= count * MaxByte
                    THEN f.num = f.den
                    ELSE f.num * count * MaxByte = total * f.den
        /\ (renderer.lastLength = 100
             /\ \A i \in 1..10 : renderer.lastData[i] = MaxByte)
            => bassIntensity(renderer.lastData, 100) = {Frac(1, 1)}

\* coordinates, in halves, at which noise is sampled
NoiseInputs == {<<1, 1, 1>>, <<3, 2, 1>>, <<-1, 5, 0>>, <<40, 7, 3>>}

Authorized(authHeader, at) ==
    /\ authHeader # <<>>
    /\ authHeader[1] = "Bearer"
    /\ authHeader[2] \in server.issued
    /\ at < authHeader[2].payload.iat + TOKEN_EXPIRY

\* C28 as stated: GET /secrets answers 200 with secrets only for a Bearer
\* token that a handshake of this server issued and that has not expired;
\* every other request is answered 401 without secrets
C28_SecretsOnlyWithToken ==
    server.last.route = "secrets" =>
        LET authorized == Authorized(server.last.request, server.last.at)
            response == server.last.response
        IN /\ (response.status = 200 \/ response.secrets # {}) => authorized
           /\ ~authorized => response.status = 401 /\ response.secrets = {}

\* C28, amended: GET /secrets answers 200 with secrets only for a Bearer
\* token that a handshake of this server issued and that has not expired;
\* every other request gets no secrets and is answered 401, or 429 when it
\* is past the tenth request of its address in the limiter's window
C28_SecretsOnlyWithTokenOrLimited ==
    server.last.route = "secrets" =>
        LET authorized == Authorized(server.last.request, server.last.at)
            response == server.last.response
        IN /\ (response.status = 200 \/ response.secrets # {}) => authorized
           /\ ~authorized =>
                 /\ response.secrets = {}
                 /\ response.status =
                       IF server.hits > RateMax THEN TooManyRequests ELSE 401

\* a token of the server's with its expiry pushed back is refused while
\* the token itself is still good
C28_Witness ==
    /\ server.last.route = "secrets"
    /\ \E token \in server.issued :
          /\ server.last.request = <<"Bearer", Tampered(token)>>
          /\ server.last.at < token.payload.exp
    /\ server.last.response.status = 401
    /\ server.last.response.error = "Invalid token"

\* what the handshake handler is to answer to a body: 400 for a missing
\* field, 401 for an unknown appId or a wrong secret, 403 for an
\* environment that is not allowed, in that order; else 200
HandshakeStatus(body) ==
    LET environment == IF body.environment = Undefined THEN "production"
                       ELSE body.environment
    IN IF Falsy(body.appId) \/ Falsy(body.appSecret) THEN 400
       ELSE IF body.appId # "darkfloor-art" THEN 401
       ELSE IF body.appSecret # APP_SECRET THEN 401
       ELSE IF environment \notin {"development", "production"} THEN 403
       ELSE 200

\* C29 as stated: POST /handshake issues a token only when appId and
\* appSecret are present, the appId is registered, the secret is the
\* registered one and the environment (production when not given) is
\* allowed; otherwise it answers 400, 401 or 403, checked in that order,
\* and issues no token
C29_HandshakeChecks ==
    server.last.route = "handshake" =>
        LET expected == HandshakeStatus(server.last.request)
            response == server.last.response
        IN /\ response.token # {} => expected = 200
           /\ expected # 200 =>
                 response.status = expected /\ response.token = {}

\* C29, amended: as stated for the requests the limiter lets through; a
\* request past the tenth of its address in the limiter's window is
\* answered 429 and issues no token
C29_HandshakeChecksOrLimited ==
    server.last.route = "handshake" =>
        LET expected == HandshakeStatus(server.last.request)
            response == server.last.response
        IN /\ response.token # {} => expected = 200
           /\ expected # 200 =>
                 /\ response.token = {}
                 /\ response.status =
                       IF server.hits > RateMax THEN TooManyRequests
                       ELSE expected
           /\ server.hits > RateMax =>
                 response.status = TooManyRequests /\ response.token = {}

\* the registered app with its secret asks for an environment that is not
\* allowed and is answered 403
C29_Witness ==
    /\ server.last.route = "handshake"
    /\ server.last.request.appId = "darkfloor-art"
    /\ server.last.request.appSecret = APP_SECRET
    /\ server.last.request.environment = "staging"
    /\ server.last.response.status = 403
    /\ server.last.response.token = {}

\* C30 as stated: /secrets accepts a token only until TOKEN_EXPIRY seconds
\* after its handshake; from then on a request with it is answered 401
\* "Token expired"; and secrets are only had with a token from a handshake
\* of the last TOKEN_EXPIRY seconds
C30_TokenExpires ==
    server.last.route = "secrets" =>
        LET response == server.last.response
            at == server.last.at
        IN /\ \A token \in server.issued :
                 server.last.request = <<"Bearer", token>> =>
                    /\ response.status = 200
                          => at < token.payload.iat + TOKEN_EXPIRY
                    /\ at >= token.payload.iat + TOKEN_EXPIRY =>
                          /\ response.status = 401
                          /\ response.error = "Token expired"
                          /\ response.secrets = {}
           /\ response.secrets # {} =>
                 \E token \in server.issued :
                    /\ token.payload.iat <= at
                    /\ at < token.payload.iat + TOKEN_EXPIRY

\* C30, amended: as stated, except that a request with an expired token
\* that is past the tenth of its address in the limiter's window is
\* answered 429 instead of 401 "Token expired"
C30_TokenExpiresOrLimited ==
    server.last.route = "secrets" =>
        LET response == server.last.response
            at == server.last.at
        IN /\ \A token \in server.issued :
                 server.last.request = <<"Bearer", token>> =>
                    /\ response.status = 200
                          => at < token.payload.iat + TOKEN_EXPIRY
                    /\ at >= token.payload.iat + TOKEN_EXPIRY =>
                          /\ response.secrets = {}
                          /\ IF server.hits > RateMax
                             THEN response.status = TooManyRequests
                             ELSE /\ response.status = 401
                                  /\ response.error = "Token expired"
           /\ response.secrets # {} =>
                 \E token \in server.issued :
                    /\ token.payload.iat <= at
                    /\ at < token.payload.iat + TOKEN_EXPIRY

\* the token of a handshake at second 0 is refused as expired at second
\* TOKEN_EXPIRY, after it was accepted a second earlier, while a newer
\* token exists
C30_Witness ==
    /\ server.last.route = "secrets"
    /\ server.last.at = TOKEN_EXPIRY
    /\ \E token \in server.issued :
          /\ token.payload.iat = 0
          /\ server.last.request = <<"Bearer", token>>
    /\ \E token \in server.issued : token.payload.iat = TOKEN_EXPIRY
    /\ server.last.response.status = 401
    /\ server.last.response.error = "Token expired"

\* C31: for every instance, its registry acquires less its registry
\* releases is 0 or 1 at all times, and 0 once it is torn down and has not
\* acquired since: an instance that never acquired releases nothing, and an
\* initialize that failed after acquiring takes no second reference when
\* initialize is called again.
C31_StrictReferenceCount ==
    \A i \in Instances :
        /\ hist[i].balance \in {0, 1}
        /\ (hist[i].tornDown /\ hist[i].holds = None) => hist[i].balance = 0

\* C32: at any time an instance has at most one frame request outstanding,
\* and the handle in animationFrameRef is that request, also when
\* startVisualization is called while a loop runs and when
\* stopVisualization is called from inside the callback.
C32_OneFrameRequest ==
    \A i \in Instances :
        /\ Cardinality(inst[i].pending) <= 1
        /\ inst[i].pending # {} => inst[i].animationFrameRef = inst[i].pending

\* C33: after a successful initialize with option fftSize = F, the
\* frequencyData buffer of the instance has length F/2, the
\* frequencyBinCount of its own tap and the length of what
\* getFrequencyData returns.
C33_BufferSizedToTap ==
    \A i \in Instances :
        (inst[i].isInitialized /\ inst[i].analyserRef # Null) =>
            /\ inst[i].frequencyDataLen = frequencyBinCount(inst[i].fftSize)
            /\ \A tap \in inst[i].analyserRef :
                  inst[i].frequencyDataLen = frequencyBinCount(tap.fftSize)
            /\ \A level \in SampleBytes :
                  inst[i].frequencyDataLen =
                      Len(getFrequencyData(inst[i].analyserRef, level).data)

\* C34: a tick of a loop that finds the tap invokes the callback exactly
\* once, with an array of the tap's frequencyBinCount read at that tick,
\* and then requests exactly one frame, whose handle it records; a tick
\* that finds the tap cleared invokes nothing and requests nothing.
C34_TickContract ==
    [][\A i \in Instances, loop \in 1..MaxStarts, callsStop \in BOOLEAN :
          Frame(i, loop, callsStop) =>
              IF inst[i].analyserRef # Null
              THEN /\ hist'[i].cbCalls = 1
                   /\ \A tap \in inst[i].analyserRef :
                         hist'[i].cbLen = frequencyBinCount(tap.fftSize)
                   /\ loop \in inst'[i].pending
                   /\ inst'[i].pending \subseteq inst[i].pending
                   /\ inst'[i].animationFrameRef = {loop}
              ELSE /\ hist'[i].cbCalls = 0
                   /\ inst'[i].pending = inst[i].pending \ {loop}
                   /\ inst'[i].animationFrameRef = inst[i].animationFrameRef]_vars

\* a frame of the first loop found the tap of an instance made with fftSize
\* 32, gave the callback 16 bytes and left its own request outstanding
C34_Witness ==
    /\ lastCall.op = "frame"
    /\ lastCall.inst = "A"
    /\ lastCall.hadTap
    /\ inst["A"].fftSize = SmallFftSize
    /\ hist["A"].cbCalls = 1
    /\ hist["A"].cbLen = 16
    /\ inst["A"].pending = {1}
    /\ inst["A"].animationFrameRef = {1}

\* the instances that are initialized on source s
InitializedOn(s) ==
    {i \in Instances : inst[i].isInitialized /\ inst[i].sourceRef = s}

\* C35: the taps attached to a source's graph are at most as many as the
\* instances currently initialized on that source: a teardown detaches the
\* instance's own tap, also while other instances keep the connection.
C35_TapsOfLiveInstances ==
    \A s \in DOMAIN registry :
        Cardinality(registry[s].taps) <= Cardinality(InitializedOn(s))

\* C36: whenever a click or touchstart occurs while the instance is
\* mounted with a source, is not initialized and the registry can supply a
\* connection, the instance becomes initialized, also when the initialize
\* of an earlier gesture was skipped or failed.
C36_GestureInitializes ==
    [][\A i \in Instances :
          (/\ inst[i].life = "mounted"
           /\ inst[i].audioElement # None
           /\ ~inst[i].isInitialized
           /\ ~Unavailable(i)
           /\ Gesture(NoFaults))
          => inst'[i].isInitialized]_vars

\* the intensity a is a number in [0, 1]
UnitNumber(a) == \E f \in a : 0 <= f.num /\ f.num <= f.den

\* C37: for every byte array and bufferLength given to render, the empty
\* array with bufferLength 0 and bands without an index included,
\* audioIntensity, bassIntensity, midIntensity and trebleIntensity are
\* numbers in [0, 1], and no particle's position or velocity is anything
\* but a number.
C37_IntensitiesDefined ==
    renderer.lastOp = "render" =>
        /\ UnitNumber(audioIntensity(renderer.lastData, renderer.lastLength))
        /\ UnitNumber(bassIntensity(renderer.lastData, renderer.lastLength))
        /\ UnitNumber(midIntensity(renderer.lastData, renderer.lastLength))
        /\ UnitNumber(trebleIntensity(renderer.lastData, renderer.lastLength))
        /\ \A particle \in Pool :
              /\ particle.x # NaN
              /\ particle.y # NaN
              /\ particle.vx # NaN
              /\ particle.vy # NaN

C39_ResizeReplacesState ==
    renderer.lastOp = "resize" =>
        /\ \A y \in DOMAIN renderer.flowField :
              \A x \in DOMAIN renderer.flowField[y] :
                  renderer.flowField[y][x] = "zero"
        /\ \A particle \in Pool :
              /\ particle.life = particle.maxLife
              /\ particle.vx = Num(0)
              /\ particle.vy = Num(0)
              /\ particle.trail = <<>>
              /\ Within(particle.x, 0, renderer.width)
              /\ Within(particle.y, 0, renderer.height)

\* C39 witness: a resize after a frame of ten loud bins, which had set the
\* grid's vector and moved the particle: the vector is as initialised and
\* the particle is at rest with its whole life and no trail
C39_Witness ==
    /\ renderer.lastOp = "resize"
    /\ renderer.lastData = Spectrum(10, 10)
    /\ renderer.flowField = <<<<"zero">>>>
    /\ Len(renderer.particles) = 1
    /\ renderer.particles[1].life = renderer.particles[1].maxLife
    /\ renderer.particles[1].vx = Num(0)
    /\ renderer.particles[1].trail = <<>>

\* the handshake request came to nothing: it failed, timed out, ended with
\* a status other than 200 or with a body that is no JSON object, or that
\* lacks success or the token
HandshakeFailed(event) ==
    \/ event.kind # "end"
    \/ event.statusCode # 200
    \/ event.data.json # "object"
    \/ ~event.data.success
    \/ event.data.token = {}

\* the same of the secrets request
SecretsFailed(event) ==
    \/ event.kind # "end"
    \/ event.statusCode # 200
    \/ event.data.json # "object"
    \/ ~event.data.success
    \/ event.data.secrets = {}

\* C40: loadSecrets requests /secrets only after the handshake has resolved
\* with a token, and sends exactly that token; if the handshake or the
\* secrets request fails, times out, ends with a status other than 200 or
\* with a malformed or incomplete body, loadSecrets rejects and yields no
\* secrets; a failed handshake is not followed by a /secrets request.
C40_LoadSecretsOrder ==
    /\ \A k \in DOMAIN loader.sent :
          loader.sent[k].route = "secrets" =>
              /\ k = 2
              /\ loader.sent[1].route = "handshake"
              /\ Len(loader.seen) >= 1
              /\ ~HandshakeFailed(loader.seen[1])
              /\ loader.seen[1].data.token = {loader.sent[k].request[2]}
              /\ loader.sent[k].request[1] = "Bearer"
    /\ (Len(loader.seen) >= 1 /\ HandshakeFailed(loader.seen[1])) =>
          /\ loader.pc = "done"
          /\ loader.promise.state = "rejected"
          /\ loader.promise.value = {}
          /\ Len(loader.sent) = 1
    /\ (Len(loader.seen) = 2 /\ SecretsFailed(loader.seen[2])) =>
          /\ loader.pc = "done"
          /\ loader.promise.state = "rejected"
          /\ loader.promise.value = {}

\* C40 witness: the handshake resolved with a token of the server's, the
\* secrets request carried it, and the server answered that the token had
\* expired: loadSecrets rejected
C40_Witness ==
    /\ Len(loader.sent) = 2
    /\ Len(loader.seen) = 2
    /\ loader.seen[1].data.token \subseteq server.issued
    /\ loader.sent[2].request = Authorization(CHOOSE t \in loader.seen[1].data.token : TRUE)
    /\ loader.seen[2].statusCode = 401
    /\ loader.seen[2].data.message = "Token expired"
    /\ loader.promise.state = "rejected"

====
